---- MODULE Spec2Model ----
(***************************************************************************)
(* A model of the containers of MySTL.                                     *)
(*                                                                         *)
(* rb_tree<Key, Value> (src/unnamed/part_000) is modelled as a heap of     *)
(* nodes with parent/left/right pointers, a color and a value each, plus   *)
(* the tree's root_ and size_.  Every public operation (insert, erase,     *)
(* find) is one action; the private helpers are operators on a heap        *)
(* record, translated statement by statement.                              *)
(*                                                                         *)
(* A node is named by the key it holds: the key of a node is const and a   *)
(* node is allocated for a key only while no live node holds it.           *)
(*                                                                         *)
(* Undefined behaviour:                                                    *)
(*   - a load or store through a null pointer traps (st = "crashed"); a    *)
(*     load whose value is never used may also be dropped by the compiler, *)
(*     so the one such load (fix_delete, `x->parent` with the loop not     *)
(*     entered) is a choice between the trap and no effect;                *)
(*   - find() flowing off its end without a return yields a trap or an     *)
(*     iterator holding an arbitrary pointer.                              *)
(* A loop that does not end within Fuel iterations is st = "hung".         *)
(*                                                                         *)
(* ThreadPool (src/thread_pool.h) is modelled as threads that step         *)
(* through the worker loop, enqueue and the destructor: taking queue_mutex *)
(* is a step, the critical section that follows is a step, and a task runs *)
(* in one step.  The tree and the pool do not touch each other: a          *)
(* specification of the one leaves the variables of the other alone.       *)
(***************************************************************************)
EXTENDS Integers, FiniteSets, Sequences, TLC

\* ---------------------------------------------------------------- bounds
MaxKey == 4
MaxVal == 2

\* the keys and values the callers of Spec pass
Keys == 1..MaxKey
Values == 1..MaxVal

\* one key more, for the callers of SpecWide
WideKeys == 1..(MaxKey + 1)

\* the keys 1, 2, ... of a scripted run, which inserts them in this order
MaxScript == 7
ScriptKeys == 1..MaxScript

\* ThreadPool: worker threads, enqueue calls that make a task, the threads
\* that call the pool
MaxThreads == 2
MaxTasks == 2
WorkerIds == 1..MaxThreads
TaskIds == 1..MaxTasks
Clients == {"main", "helper"}
\* an empty std::function
NoTask == 0

\* MemoryPool: the chunks of a pool, sizeof(unsigned char*), the address
\* that new[] hands out for the pool, and an address outside of it
MaxChunks == 3
PtrSize == 8
PoolBase == 4096
Stray == PoolBase - 1

\* shared_ptr: the shared_ptr instances and the objects made by new
MaxPtrs == 3
MaxObjs == 2

\* list: the element nodes that can be allocated at a time
MaxElems == 3

\* unordered_map: the bucket counts it may be constructed with
MaxBuckets == 2

\* heap_sort: the longest range sorted
MaxLen == 4

\* every key there is; a node is named by its key
AllKeys == WideKeys \cup ScriptKeys
MaxNodes == Cardinality(AllKeys)

\* the null pointer, and a pointer to no node at all
NIL == 0
WILD == NIL - 1

RED == "RED"
BLACK == "BLACK"

\* iterations allowed to a loop before it counts as not terminating
Fuel == 2 * MaxNodes + 2

VARIABLES
    root_,      \* rb_tree::root_
    size_,      \* rb_tree::size_
    nodes,      \* the nodes allocated by new and not yet deleted
    color,      \* rb_tree_node::color
    parent,     \* rb_tree_node::parent
    left,       \* rb_tree_node::left
    right,      \* rb_tree_node::right
    data,       \* rb_tree_node::data.second (data.first is the node's name)
    st,         \* "ok", "crashed" (trap), "hung" (a loop that never ends)
    call,       \* the last public call: [op, key, val]
    ret,        \* what it returned: [node, ok]
    visited,    \* the keys a loop from begin() to end() has dereferenced
    log,        \* the calls a scripted run has made: [op, key, rot, rec]
    twin        \* a second rb_tree, which gets the calls with the key order
                \* reversed (a heap record)

treeVars ==
    <<root_, size_, nodes, color, parent, left, right, data, st, call, ret,
      visited, log, twin>>

\* ThreadPool (src/thread_pool.h)
VARIABLES
    threads,      \* the argument of the constructor: workers.size()
    stop,         \* ThreadPool::stop
    tasks,        \* ThreadPool::tasks, front first
    queue_mutex,  \* who holds it: [w |-> workers, c |-> clients]
    condition,    \* the workers blocked in condition.wait
    wpc,          \* where each worker is in its loop
    wtask,        \* the local `task` of each worker
    cpc,          \* where each client thread is in enqueue or ~ThreadPool
    ctask,        \* the task a client is enqueuing
    outcome,      \* how the last enqueue of each client ended
    kind,         \* of each task: made by enqueue<R> ("R") or by enqueue
    future,       \* the shared state of each packaged_task: [st, val, held]
    ran,          \* how often each task has been executed
    joined,       \* how many workers ~ThreadPool has joined
    added,        \* the tasks in the order tasks.emplace has queued them
    taken         \* the tasks in the order tasks.pop has removed them

poolVars ==
    <<threads, stop, tasks, queue_mutex, condition, wpc, wtask, cpc, ctask,
      outcome, kind, future, ran, joined, added, taken>>

\* MemoryPool (src/include/MySTL/vector.h)
VARIABLES
    chunkSize_,     \* MemoryPool::chunkSize_
    numChunks_,     \* MemoryPool::numChunks_
    pool_,          \* MemoryPool::pool_, the address of the first chunk
    freeListHead_,  \* MemoryPool::freeListHead_
    chunk,          \* the pointer stored in the first bytes of each chunk
    owned,          \* the chunks handed out by allocate and not given back
    recent,         \* the chunk given back last, until allocate is called
    mret            \* the last access: [op, ptr, exc]

memVars ==
    <<chunkSize_, numChunks_, pool_, freeListHead_, chunk, owned, recent,
      mret>>

\* shared_ptr and ControlBlock (src/include/MySTL/vector.h).  An object and
\* the ControlBlock made for it bear the same number.
VARIABLES
    alive,          \* the shared_ptr instances constructed and not destroyed
    ptr,            \* shared_ptr::ptr of each instance
    control_block,  \* shared_ptr::control_block of each instance
    shared_count,   \* ControlBlock::shared_count of each block
    weak_count,     \* ControlBlock::weak_count of each block
    made,           \* the objects handed to a shared_ptr constructor
    deleted,        \* how often `delete ptr` has run on each object
    freed           \* how often `delete control_block` has run on each block

sharedVars ==
    <<alive, ptr, control_block, shared_count, weak_count, made, deleted,
      freed>>

\* list (src/include/MySTL/vector.h)
VARIABLES
    list,           \* a list: [head, tail, size_, prev, next, data], the
                    \* element nodes allocated and whether it is still defined
    lcall           \* the last call on it: [op, value]

listVars == <<list, lcall>>

\* unordered_map (src/include/MySTL/unordered_map.h)
VARIABLES
    map,            \* a map: [buckets, bucket_count, elem_count], each
                    \* bucket a list of [key, value]
    mcall           \* the last call on it: [op, key, ret]

mapVars == <<map, mcall>>

\* heap_sort (src/sort.h)
VARIABLES
    range,          \* the elements of [begin, end)
    input,          \* the elements it held at first
    sorting         \* what has been called on it, or "hung"

sortVars == <<range, input, sorting>>

\* the containers that stand by while the tree or the thread pool is run
auxVars == <<memVars, sharedVars, listVars, mapVars, sortVars>>

vars == <<treeVars, poolVars, auxVars>>

\* The tree and its nodes as one record, the value the operators work on.
Heap ==
    [root_ |-> root_, size_ |-> size_, nodes |-> nodes, color |-> color,
     parent |-> parent, left |-> left, right |-> right, data |-> data,
     st |-> st]

\* rb_tree(): root_(nullptr), size_(0); no node is allocated.
EmptyHeap ==
    [root_ |-> NIL, size_ |-> 0, nodes |-> {},
     color |-> [n \in AllKeys |-> RED],
     parent |-> [n \in AllKeys |-> NIL],
     left |-> [n \in AllKeys |-> NIL],
     right |-> [n \in AllKeys |-> NIL],
     data |-> [n \in AllKeys |-> 0],
     st |-> "ok"]

\* A trap: the process stops where it is.
Crash(h) == [h EXCEPT !.st = "crashed"]

\* A loop that does not terminate.
Hang(h) == [h EXCEPT !.st = "hung"]

\* Sequencing: the value v of the statements so far is handed to the rest.
Bind(v, F(_)) == F(v)

\* ------------------------------------------------------------- rotations

\* The tail shared by both rotations and by transplant:
\*   if (!u->parent) root_ = v;
\*   else if (u == u->parent->left) u->parent->left = v;
\*   else u->parent->right = v;
ReplaceChild(h, u, v) ==
    IF h.parent[u] = NIL THEN [h EXCEPT !.root_ = v]
    ELSE IF u = h.left[h.parent[u]] THEN [h EXCEPT !.left[h.parent[u]] = v]
    ELSE [h EXCEPT !.right[h.parent[u]] = v]

\* if (c) c->parent = p;
SetParentIf(h, c, p) == IF c # NIL THEN [h EXCEPT !.parent[c] = p] ELSE h

\* rotate_left with `x->right = nullptr` for `x->right = y->left`: the
\* subtree between x and y is dropped.
rotate_left_dropmid(h, x) ==
    IF h.st # "ok" THEN h
    ELSE IF x = NIL THEN Crash(h)
    ELSE IF h.right[x] = NIL THEN Crash(h)
    ELSE
      LET y == h.right[x] IN
      Bind([h EXCEPT !.right[x] = NIL], LAMBDA h1 :
      Bind([h1 EXCEPT !.parent[y] = h1.parent[x]], LAMBDA h3 :
      Bind(ReplaceChild(h3, x, y), LAMBDA h4 :
      Bind([h4 EXCEPT !.left[y] = x], LAMBDA h5 :
      [h5 EXCEPT !.parent[x] = y]))))

\* rotate_left(x): x's right child y takes x's place, x becomes y's left.
rotate_left(h, x) ==
    IF h.st # "ok" THEN h
    ELSE IF x = NIL THEN Crash(h)
    ELSE IF h.right[x] = NIL THEN Crash(h)
    ELSE
      LET y == h.right[x] IN
      Bind([h EXCEPT !.right[x] = h.left[y]], LAMBDA h1 :
      Bind(SetParentIf(h1, h1.left[y], x), LAMBDA h2 :
      Bind([h2 EXCEPT !.parent[y] = h2.parent[x]], LAMBDA h3 :
      Bind(ReplaceChild(h3, x, y), LAMBDA h4 :
      Bind([h4 EXCEPT !.left[y] = x], LAMBDA h5 :
      [h5 EXCEPT !.parent[x] = y])))))

\* rotate_right(y): y's left child x takes y's place, y becomes x's right.
rotate_right(h, y) ==
    IF h.st # "ok" THEN h
    ELSE IF y = NIL THEN Crash(h)
    ELSE IF h.left[y] = NIL THEN Crash(h)
    ELSE
      LET x == h.left[y] IN
      Bind([h EXCEPT !.left[y] = h.right[x]], LAMBDA h1 :
      Bind(SetParentIf(h1, h1.right[x], y), LAMBDA h2 :
      Bind([h2 EXCEPT !.parent[x] = h2.parent[y]], LAMBDA h3 :
      Bind(ReplaceChild(h3, y, x), LAMBDA h4 :
      Bind([h4 EXCEPT !.right[x] = y], LAMBDA h5 :
      [h5 EXCEPT !.parent[y] = x])))))

\* ------------------------------------------------------------ fix_insert

\* The uncle-RED case of either side:
\*   parent->color = BLACK; uncle->color = BLACK; grandparent->color = RED;
RecolorUp(h, p, uncle, g) ==
    [h EXCEPT !.color = [h.color EXCEPT ![p] = BLACK, ![uncle] = BLACK,
                                        ![g] = RED]]

\* RecolorPair without grandparent->color = RED.
RecolorPair_keepgrand(h, p, g) ==
    IF h.st # "ok" THEN h
    ELSE [h EXCEPT !.color = [h.color EXCEPT ![p] = BLACK]]

\* parent->color = BLACK; grandparent->color = RED;
RecolorPair(h, p, g) ==
    IF h.st # "ok" THEN h
    ELSE [h EXCEPT !.color = [h.color EXCEPT ![p] = BLACK, ![g] = RED]]

\* The uncle-BLACK case when parent is grandparent's left child (lines
\* 326-332).  p and g are the parent and grandparent read at the top of the
\* iteration; they are not read again after the inner rotation.
fix_insert_rotate_l(h, node, p, g) ==
    IF node = h.right[p]
    THEN [h |-> rotate_right(RecolorPair(rotate_left(h, p), p, g), g),
          node |-> p]
    ELSE [h |-> rotate_right(RecolorPair(h, p, g), g), node |-> node]

\* The mirror case, parent being grandparent's right child (lines 343-349).
fix_insert_rotate_r(h, node, p, g) ==
    IF node = h.left[p]
    THEN [h |-> rotate_left(RecolorPair(rotate_right(h, p), p, g), g),
          node |-> p]
    ELSE [h |-> rotate_left(RecolorPair(h, p, g), g), node |-> node]

\* One iteration of the loop of fix_insert, entered with parent p RED:
\* [h, node] at the end of the body.
fix_insert_body(h, node, p, g) ==
    IF g = NIL THEN [h |-> Crash(h), node |-> node]  \* grandparent->left
    ELSE IF p = h.left[g]
    THEN IF h.right[g] # NIL /\ h.color[h.right[g]] = RED
         THEN [h |-> RecolorUp(h, p, h.right[g], g), node |-> g]
         ELSE fix_insert_rotate_l(h, node, p, g)
    ELSE IF h.left[g] # NIL /\ h.color[h.left[g]] = RED
         THEN [h |-> RecolorUp(h, p, h.left[g], g), node |-> g]
         ELSE fix_insert_rotate_r(h, node, p, g)

\* while (node != root_ && node->parent->color == RED)
RECURSIVE fix_insert_loop(_, _, _)
fix_insert_loop(h, node, fuel) ==
    IF h.st # "ok" \/ node = h.root_ THEN h
    ELSE IF h.parent[node] = NIL THEN Crash(h)      \* node->parent->color
    ELSE IF h.color[h.parent[node]] # RED THEN h
    ELSE IF fuel = 0 THEN Hang(h)
    ELSE Bind(fix_insert_body(h, node, h.parent[node],
                              h.parent[h.parent[node]]),
              LAMBDA s : fix_insert_loop(s.h, s.node, fuel - 1))

\* BlackenRoot left out: the root keeps the color the loop gave it.
BlackenRoot_skip(h) == h

\* root_->color = BLACK;
BlackenRoot(h) ==
    IF h.st # "ok" THEN h
    ELSE IF h.root_ = NIL THEN Crash(h)
    ELSE [h EXCEPT !.color[h.root_] = BLACK]

\* fix_insert(node): the loop, then the root is forced BLACK.
fix_insert(h, node) == BlackenRoot(fix_insert_loop(h, node, Fuel))

\* ----------------------------------------------------------------- search

\* The descent shared by find, insert and erase: from cur, left when key is
\* less, right when greater.  Returns [cur, parent, st]; cur is the node
\* holding key or NIL, parent the last node visited before it.
RECURSIVE descend(_, _, _, _, _)
descend(h, cur, par, key, fuel) ==
    IF cur = NIL THEN [cur |-> NIL, parent |-> par, st |-> "ok"]
    ELSE IF fuel = 0 THEN [cur |-> cur, parent |-> par, st |-> "hung"]
    ELSE IF key < cur THEN descend(h, h.left[cur], cur, key, fuel - 1)
    ELSE IF key > cur THEN descend(h, h.right[cur], cur, key, fuel - 1)
    ELSE [cur |-> cur, parent |-> par, st |-> "ok"]

\* ----------------------------------------------------------------- insert

\* new Node(k, v); node->parent = parent: RED, no children.
NewNode(h, k, v, par) ==
    [h EXCEPT !.nodes = h.nodes \cup {k},
              !.color[k] = RED, !.parent[k] = par, !.left[k] = NIL,
              !.right[k] = NIL, !.data[k] = v]

\* Link with the comparison turned round: the smaller key goes right.
Link_swapped(h, k, par) ==
    IF par = NIL THEN [h EXCEPT !.root_ = k]
    ELSE IF k < par THEN [h EXCEPT !.right[par] = k]
    ELSE [h EXCEPT !.left[par] = k]

\* The new node k goes into the slot the descent ended at (lines 138-145).
Link(h, k, par) ==
    IF par = NIL THEN [h EXCEPT !.root_ = k]
    ELSE IF k < par THEN [h EXCEPT !.left[par] = k]
    ELSE [h EXCEPT !.right[par] = k]

\* insert_done without ++size_.
insert_done_nocount(h, k) ==
    IF h.st # "ok" THEN [h |-> h, node |-> NIL, ok |-> FALSE]
    ELSE [h |-> h, node |-> k, ok |-> TRUE]

\* ++size_; return {iterator(node), true};  (nothing returns after a trap)
insert_done(h, k) ==
    IF h.st # "ok" THEN [h |-> h, node |-> NIL, ok |-> FALSE]
    ELSE [h |-> [h EXCEPT !.size_ = h.size_ + 1], node |-> k, ok |-> TRUE]

\* insert_at storing the new value over the old one when the key is found.
insert_at_overwrite(h, k, v, d) ==
    IF d.st # "ok" THEN [h |-> Hang(h), node |-> NIL, ok |-> FALSE]
    ELSE IF d.cur # NIL
    THEN [h |-> [h EXCEPT !.data[d.cur] = v], node |-> d.cur, ok |-> FALSE]
    ELSE insert_done(
           fix_insert(Link(NewNode(h, k, v, d.parent), k, d.parent), k), k)

\* The part of insert after the descent d.
insert_at(h, k, v, d) ==
    IF d.st # "ok" THEN [h |-> Hang(h), node |-> NIL, ok |-> FALSE]
    ELSE IF d.cur # NIL THEN [h |-> h, node |-> d.cur, ok |-> FALSE]
    ELSE insert_done(
           fix_insert(Link(NewNode(h, k, v, d.parent), k, d.parent), k), k)

\* insert(kv): [h |-> the heap after the call, node, ok |-> the pair returned]
insert(h, k, v) == insert_at(h, k, v, descend(h, h.root_, NIL, k, Fuel))

\* ---------------------------------------------------------------- minimum

\* minimum(node): nullptr for nullptr, else the leftmost node below node.
RECURSIVE minimum_loop(_, _, _)
minimum_loop(h, node, fuel) ==
    IF h.left[node] = NIL THEN node
    ELSE IF fuel = 0 THEN WILD
    ELSE minimum_loop(h, h.left[node], fuel - 1)

minimum(h, node) == IF node = NIL THEN NIL ELSE minimum_loop(h, node, Fuel)

\* ------------------------------------------------------------- transplant

\* transplant without `if (v) v->parent = u->parent`.
transplant_noparent(h, u, v) ==
    IF h.st # "ok" THEN h
    ELSE IF u = NIL THEN Crash(h)
    ELSE ReplaceChild(h, u, v)

\* transplant(u, v): v takes u's place under u's parent (or as root_);
\* u's own links are left as they are.
transplant(h, u, v) ==
    IF h.st # "ok" THEN h
    ELSE IF u = NIL THEN Crash(h)
    ELSE Bind(ReplaceChild(h, u, v), LAMBDA h1 :
         SetParentIf(h1, v, h1.parent[u]))

\* ------------------------------------------------------------- fix_delete

\* `!c || c->color == BLACK`
IsBlack(h, c) == c = NIL \/ h.color[c] = BLACK

\* The locals of the loop of fix_delete.
FD(h, x, par) == [h |-> h, x |-> x, parent |-> par]

\* case 1 when x is the left child: sibling w RED (lines 366-371).
fix_delete_l1(h, par) ==
    IF h.right[par] # NIL /\ h.color[h.right[par]] = RED
    THEN rotate_left([h EXCEPT !.color = [h.color EXCEPT
                          ![h.right[par]] = BLACK, ![par] = RED]], par)
    ELSE h

\* case 3 when x is the left child: w's right child BLACK (lines 381-387).
fix_delete_l3(h, par, w) ==
    IF IsBlack(h, h.right[w])
    THEN Bind(IF h.left[w] # NIL THEN [h EXCEPT !.color[h.left[w]] = BLACK]
              ELSE h, LAMBDA h1 :
         rotate_right([h1 EXCEPT !.color[w] = RED], w))
    ELSE h

\* case 4 when x is the left child (lines 389-395), w read after case 3.
fix_delete_l4(h, par, w) ==
    IF h.st # "ok" THEN h
    ELSE
      Bind(IF w # NIL THEN [h EXCEPT !.color[w] = h.color[par]] ELSE h,
           LAMBDA h1 :
      Bind([h1 EXCEPT !.color[par] = BLACK], LAMBDA h2 :
      Bind(IF w # NIL /\ h2.right[w] # NIL
           THEN [h2 EXCEPT !.color[h2.right[w]] = BLACK] ELSE h2,
           LAMBDA h3 :
      rotate_left(h3, par))))

\* cases 2-4 when x is the left child, w being the sibling after case 1.
fix_delete_l2(h, x, par, w) ==
    IF h.st # "ok" THEN FD(h, x, par)
    ELSE IF w = NIL THEN FD(Crash(h), x, par)        \* w->left through null
    ELSE IF IsBlack(h, h.left[w]) /\ IsBlack(h, h.right[w])
    THEN \* w->color = RED; x = parent; parent = x->parent;
         FD([h EXCEPT !.color[w] = RED], par, h.parent[par])
    ELSE Bind(fix_delete_l3(h, par, w), LAMBDA h1 :
         Bind(fix_delete_l4(h1, par, IF h1.st = "ok" THEN h1.right[par]
                                     ELSE w),
              LAMBDA h2 : FD(h2, h2.root_, par)))

\* The body of the loop when x == parent->left (lines 364-396).
fix_delete_left(h, x, par) ==
    Bind(fix_delete_l1(h, par), LAMBDA h1 :
         fix_delete_l2(h1, x, par, IF h1.st = "ok" THEN h1.right[par]
                                   ELSE NIL))

\* case 1 when x is the right child: sibling w RED (lines 400-405).
fix_delete_r1(h, par) ==
    IF h.left[par] # NIL /\ h.color[h.left[par]] = RED
    THEN rotate_right([h EXCEPT !.color = [h.color EXCEPT
                           ![h.left[par]] = BLACK, ![par] = RED]], par)
    ELSE h

\* case 3 when x is the right child: w's left child BLACK (lines 412-418).
fix_delete_r3(h, par, w) ==
    IF IsBlack(h, h.left[w])
    THEN Bind(IF h.right[w] # NIL
              THEN [h EXCEPT !.color[h.right[w]] = BLACK]
              ELSE h, LAMBDA h1 :
         rotate_left([h1 EXCEPT !.color[w] = RED], w))
    ELSE h

\* case 4 when x is the right child (lines 419-425).
fix_delete_r4(h, par, w) ==
    IF h.st # "ok" THEN h
    ELSE
      Bind(IF w # NIL THEN [h EXCEPT !.color[w] = h.color[par]] ELSE h,
           LAMBDA h1 :
      Bind([h1 EXCEPT !.color[par] = BLACK], LAMBDA h2 :
      Bind(IF w # NIL /\ h2.left[w] # NIL
           THEN [h2 EXCEPT !.color[h2.left[w]] = BLACK] ELSE h2,
           LAMBDA h3 :
      rotate_right(h3, par))))

\* cases 2-4 when x is the right child.  Case 2 moves only x up (line
\* 410): parent keeps the value it had.
fix_delete_r2(h, x, par, w) ==
    IF h.st # "ok" THEN FD(h, x, par)
    ELSE IF w = NIL THEN FD(Crash(h), x, par)        \* w->left through null
    ELSE IF IsBlack(h, h.left[w]) /\ IsBlack(h, h.right[w])
    THEN \* w->color = RED; x = parent;
         FD([h EXCEPT !.color[w] = RED], par, par)
    ELSE Bind(fix_delete_r3(h, par, w), LAMBDA h1 :
         Bind(fix_delete_r4(h1, par, IF h1.st = "ok" THEN h1.left[par]
                                     ELSE w),
              LAMBDA h2 : FD(h2, h2.root_, par)))

\* The body of the loop when x is not parent->left (lines 399-426).
fix_delete_right(h, x, par) ==
    Bind(fix_delete_r1(h, par), LAMBDA h1 :
         fix_delete_r2(h1, x, par, IF h1.st = "ok" THEN h1.left[par]
                                   ELSE NIL))

\* while (x != root_ && (!x || x->color == BLACK))
RECURSIVE fix_delete_loop(_, _, _, _)
fix_delete_loop(h, x, par, fuel) ==
    IF h.st # "ok" THEN FD(h, x, par)
    ELSE IF x = h.root_ \/ ~IsBlack(h, x) THEN FD(h, x, par)
    ELSE IF fuel = 0 THEN FD(Hang(h), x, par)
    ELSE IF par = NIL THEN FD(Crash(h), x, par)      \* parent->left
    ELSE Bind(IF x = h.left[par] THEN fix_delete_left(h, x, par)
              ELSE fix_delete_right(h, x, par),
              LAMBDA s : fix_delete_loop(s.h, s.x, s.parent, fuel - 1))

\* fix_delete_end without the recoloring: x keeps its color.
fix_delete_end_keep(s) == s.h

\* if (x) x->color = BLACK;
fix_delete_end(s) ==
    IF s.h.st # "ok" THEN s.h
    ELSE IF s.x # NIL THEN [s.h EXCEPT !.color[s.x] = BLACK]
    ELSE s.h

\* fix_delete(x).  Its first statement loads x->parent, also when x is
\* nullptr: that load traps, or, when the loop is not entered and nothing
\* reads parent, may have been dropped (elide).
fix_delete(h, x, elide) ==
    IF h.st # "ok" THEN h
    ELSE IF x = NIL
    THEN IF elide /\ x = h.root_ THEN h ELSE Crash(h)
    ELSE fix_delete_end(fix_delete_loop(h, x, h.parent[x], Fuel))

\* ------------------------------------------------------------------ erase

\* delete node: the node's storage is gone.
DeleteNode(h, n) ==
    [h EXCEPT !.nodes = h.nodes \ {n},
              !.color[n] = RED, !.parent[n] = NIL, !.left[n] = NIL,
              !.right[n] = NIL, !.data[n] = 0]

\* erase_splice without transplant(y, y->right): y's former parent keeps y
\* as its child.
erase_splice_nolift(h, node, y) ==
    IF h.parent[y] = node
    THEN SetParentIf(h, h.right[y], y)
    ELSE Bind([h EXCEPT !.right[y] = h.right[node]], LAMBDA h2 :
         SetParentIf(h2, h2.right[y], y))

\* Lines 176-185: y is detached from below node.
erase_splice(h, node, y) ==
    IF h.parent[y] = node
    THEN SetParentIf(h, h.right[y], y)
    ELSE Bind(transplant(h, y, h.right[y]), LAMBDA h1 :
         Bind([h1 EXCEPT !.right[y] = h1.right[node]], LAMBDA h2 :
         SetParentIf(h2, h2.right[y], y)))

\* erase_graft without y->color = node->color.
erase_graft_owncolor(h, node, y) ==
    Bind(transplant(h, node, y), LAMBDA h1 :
    Bind([h1 EXCEPT !.left[y] = h1.left[node]], LAMBDA h2 :
    SetParentIf(h2, h2.left[y], y)))

\* Lines 186-192: y takes node's place, left subtree and color.
erase_graft(h, node, y) ==
    Bind(transplant(h, node, y), LAMBDA h1 :
    Bind([h1 EXCEPT !.left[y] = h1.left[node]], LAMBDA h2 :
    Bind(SetParentIf(h2, h2.left[y], y), LAMBDA h3 :
    [h3 EXCEPT !.color[y] = h3.color[node]])))

\* The two-children branch of erase (lines 172-192) with y the minimum of
\* node's right subtree: [h, x, yc] with x = y->right and yc = y's color,
\* both read before any link changes.
erase_two(h, node, y) ==
    IF y = WILD THEN [h |-> Hang(h), x |-> NIL, yc |-> RED]
    ELSE [h |-> erase_graft(erase_splice(h, node, y), node, y),
          x |-> h.right[y], yc |-> h.color[y]]

\* The branch for at most one child (lines 195-196).
erase_one(h, node, x) ==
    [h |-> transplant(h, node, x), x |-> x, yc |-> h.color[node]]

\* erase_done without `delete node`: the node stays allocated.
erase_done_leak(h, node) ==
    IF h.st # "ok" THEN [h |-> h, ok |-> FALSE]
    ELSE [h |-> [h EXCEPT !.size_ = h.size_ - 1], ok |-> TRUE]

\* delete node; --size_; return true;  (nothing returns after a trap)
erase_done(h, node) ==
    IF h.st # "ok" THEN [h |-> h, ok |-> FALSE]
    ELSE [h |-> [DeleteNode(h, node) EXCEPT !.size_ = h.size_ - 1],
          ok |-> TRUE]

\* erase_at counting a key that was not found as removed.
erase_at_miss_counted(h, d, elide) ==
    IF d.st # "ok" THEN [h |-> Hang(h), ok |-> FALSE]
    ELSE IF d.cur = NIL
    THEN [h |-> [h EXCEPT !.size_ = IF h.size_ > 0 THEN h.size_ - 1 ELSE 0],
          ok |-> FALSE]
    ELSE
      Bind(IF h.left[d.cur] # NIL /\ h.right[d.cur] # NIL
           THEN erase_two(h, d.cur, minimum(h, h.right[d.cur]))
           ELSE erase_one(h, d.cur, IF h.left[d.cur] # NIL
                                    THEN h.left[d.cur]
                                    ELSE h.right[d.cur]),
           LAMBDA s :
      erase_done(IF s.yc = BLACK THEN fix_delete(s.h, s.x, elide) ELSE s.h,
                 d.cur))

\* The part of erase after the descent d.
erase_at(h, d, elide) ==
    IF d.st # "ok" THEN [h |-> Hang(h), ok |-> FALSE]
    ELSE IF d.cur = NIL THEN [h |-> h, ok |-> FALSE]
    ELSE
      Bind(IF h.left[d.cur] # NIL /\ h.right[d.cur] # NIL
           THEN erase_two(h, d.cur, minimum(h, h.right[d.cur]))
           ELSE erase_one(h, d.cur, IF h.left[d.cur] # NIL
                                    THEN h.left[d.cur]
                                    ELSE h.right[d.cur]),
           LAMBDA s :
      erase_done(IF s.yc = BLACK THEN fix_delete(s.h, s.x, elide) ELSE s.h,
                 d.cur))

\* erase(key): [h |-> the heap after the call, ok |-> the bool returned]
erase(h, key, elide) ==
    erase_at(h, descend(h, h.root_, NIL, key, Fuel), elide)

\* ------------------------------------------------------------------- find

\* find(key): the node holding key, or NIL when the descent runs off the
\* tree; in that case the function has no return statement.
\* find that hands back the root without comparing any key.
find_root(h, key) == [cur |-> h.root_, parent |-> NIL, st |-> "ok"]

\* find(key): the descent alone; what it returns is told apart in the
\* actions FindHit and FindMiss.
find(h, key) == descend(h, h.root_, NIL, key, Fuel)

\* What a call that flows off the end of find may hand back.
FindGarbage == WideKeys \cup {NIL, WILD}

\* -------------------------------------------------------------- iteration

\* The while loop of successor: climb while node is its parent's right
\* child; WILD when the climb does not end.
RECURSIVE successor_loop(_, _, _, _)
successor_loop(h, node, p, fuel) ==
    IF p # NIL /\ node = h.right[p]
    THEN IF fuel = 0 THEN WILD
         ELSE successor_loop(h, p, h.parent[p], fuel - 1)
    ELSE p

\* successor without the climb: the parent is taken as the next node.
successor_noclimb(h, node) ==
    IF node = NIL THEN NIL
    ELSE IF h.right[node] # NIL THEN minimum(h, h.right[node])
    ELSE h.parent[node]

\* successor(node): the in-order next node, nullptr after the last one.
successor(h, node) ==
    IF node = NIL THEN NIL
    ELSE IF h.right[node] # NIL THEN minimum(h, h.right[node])
    ELSE successor_loop(h, node, h.parent[node], Fuel)

\* begin(): iterator(minimum(root_), this); end(): iterator(nullptr, this).
begin(h) == minimum(h, h.root_)
end == NIL

\* for (it = begin(); it != end(); ++it): the nodes dereferenced, in order.
RECURSIVE iterate(_, _, _, _)
iterate(h, it, seen, fuel) ==
    IF it = end THEN [seen |-> seen, st |-> "ok"]
    ELSE IF it = WILD \/ fuel = 0 THEN [seen |-> seen, st |-> "hung"]
    ELSE iterate(h, successor(h, it), Append(seen, it), fuel - 1)

\* ------------------------------------------------------------ ThreadPool
\* src/thread_pool.h.  Worker w is the w-th thread of `workers`; a task is
\* named by the number of the enqueue call that made it.  A critical
\* section (from taking queue_mutex to releasing it) is one step after the
\* step that takes the mutex.

\* ThreadPool(n): stop(false), n workers started, nothing queued.
ThreadPool(n) ==
    /\ threads = n
    /\ stop = FALSE
    /\ tasks = << >>
    /\ queue_mutex = [w |-> {}, c |-> {}]
    /\ condition = {}
    /\ wpc = [w \in WorkerIds |-> IF w <= n THEN "lock" ELSE "none"]
    /\ wtask = [w \in WorkerIds |-> NoTask]
    /\ cpc = [c \in Clients |-> "idle"]
    /\ ctask = [c \in Clients |-> NoTask]
    /\ outcome = [c \in Clients |-> "none"]
    /\ kind = [t \in TaskIds |-> "none"]
    /\ future = [t \in TaskIds |-> [st |-> "none", val |-> 0, held |-> FALSE]]
    /\ ran = [t \in TaskIds |-> 0]
    /\ joined = 0
    /\ added = << >>
    /\ taken = << >>

\* queue_mutex is held by nobody.
Free == queue_mutex.w = {} /\ queue_mutex.c = {}

\* The task the next accepted call makes.
NextTask == Cardinality({t \in TaskIds : kind[t] # "none"}) + 1

\* The pool object is alive: its destructor has not returned.
Alive == cpc["main"] # "gone"

\* What the function handed to the t-th enqueue call returns: every task
\* has a result of its own, as the tasks of test_pool.cpp have.
Result(t) == t

\* enqueue<R>(task_function) with a callable function: lines 92-100, the
\* packaged_task and its future are made.
EnqueueR(c) ==
    /\ Alive /\ cpc[c] = "idle" /\ NextTask \in TaskIds
    /\ kind' = [kind EXCEPT ![NextTask] = "R"]
    /\ future' = [future EXCEPT ![NextTask].st = "pending"]
    /\ ctask' = [ctask EXCEPT ![c] = NextTask]
    /\ cpc' = [cpc EXCEPT ![c] = "lock"]
    /\ outcome' = [outcome EXCEPT ![c] = "none"]
    /\ UNCHANGED <<threads, stop, tasks, queue_mutex, condition, wpc, wtask,
                   ran, joined>>
    /\ UNCHANGED <<added, taken>>

\* enqueue(task_function), the void version, with a callable function:
\* lines 75-79.
EnqueueVoid(c) ==
    /\ Alive /\ cpc[c] = "idle" /\ NextTask \in TaskIds
    /\ kind' = [kind EXCEPT ![NextTask] = "void"]
    /\ ctask' = [ctask EXCEPT ![c] = NextTask]
    /\ cpc' = [cpc EXCEPT ![c] = "lock"]
    /\ outcome' = [outcome EXCEPT ![c] = "none"]
    /\ UNCHANGED <<threads, stop, tasks, queue_mutex, condition, wpc, wtask,
                   future, ran, joined>>
    /\ UNCHANGED <<added, taken>>

\* Either enqueue with an empty function: enqueue<R> throws
\* invalid_argument (lines 92-94), the void version returns (lines 76-78).
EnqueueEmpty(c, r) ==
    /\ Alive /\ cpc[c] = "idle"
    /\ outcome' = [outcome EXCEPT ![c] = IF r THEN "invalid_argument"
                                        ELSE "returned"]
    /\ UNCHANGED <<threads, stop, tasks, queue_mutex, condition, wpc, wtask,
                   cpc, ctask, kind, future, ran, joined>>
    /\ UNCHANGED <<added, taken>>

\* unique_lock<mutex> lock(queue_mutex) of a client: lines 64, 80, 103.
ClientLock(c) ==
    /\ cpc[c] \in {"lock", "d_lock"} /\ Free
    /\ queue_mutex' = [queue_mutex EXCEPT !.c = {c}]
    /\ cpc' = [cpc EXCEPT ![c] = IF cpc[c] = "lock" THEN "crit" ELSE "d_stop"]
    /\ UNCHANGED <<threads, stop, tasks, condition, wpc, wtask, ctask,
                   outcome, kind, future, ran, joined>>
    /\ UNCHANGED <<added, taken>>

\* ClientQueue that puts the task at the front of the queue.
ClientQueue_front(c) ==
    /\ cpc[c] = "crit" /\ queue_mutex.c = {c}
    /\ queue_mutex' = [queue_mutex EXCEPT !.c = {}]
    /\ IF stop
       THEN /\ outcome' = [outcome EXCEPT ![c] =
                              IF kind[ctask[c]] = "R" THEN "runtime_error"
                              ELSE "returned"]
            /\ future' = [future EXCEPT ![ctask[c]].st =
                              IF kind[ctask[c]] = "R" THEN "dropped" ELSE @]
            /\ cpc' = [cpc EXCEPT ![c] = "idle"]
            /\ ctask' = [ctask EXCEPT ![c] = NoTask]
            /\ UNCHANGED <<tasks, added>>
       ELSE /\ tasks' = <<ctask[c]>> \o tasks
            /\ added' = Append(added, ctask[c])
            /\ cpc' = [cpc EXCEPT ![c] = "notify"]
            /\ UNCHANGED <<outcome, future, ctask>>
    /\ UNCHANGED <<threads, stop, condition, wpc, wtask, kind, ran, joined>>
    /\ UNCHANGED taken

\* ClientQueue without the test of stop: the task is queued in any case.
ClientQueue_nostop(c) ==
    /\ cpc[c] = "crit" /\ queue_mutex.c = {c}
    /\ queue_mutex' = [queue_mutex EXCEPT !.c = {}]
    /\ tasks' = Append(tasks, ctask[c])
    /\ added' = Append(added, ctask[c])
    /\ cpc' = [cpc EXCEPT ![c] = "notify"]
    /\ UNCHANGED <<outcome, future, ctask>>
    /\ UNCHANGED <<threads, stop, condition, wpc, wtask, kind, ran, joined>>
    /\ UNCHANGED taken

\* The critical section of enqueue: lines 81-85 and 104-125.  With stop set
\* enqueue<R> throws runtime_error (its future dies with the call), the void
\* version returns; otherwise the task goes to the back of the queue.
ClientQueue(c) ==
    /\ cpc[c] = "crit" /\ queue_mutex.c = {c}
    /\ queue_mutex' = [queue_mutex EXCEPT !.c = {}]
    /\ IF stop
       THEN /\ outcome' = [outcome EXCEPT ![c] =
                              IF kind[ctask[c]] = "R" THEN "runtime_error"
                              ELSE "returned"]
            /\ future' = [future EXCEPT ![ctask[c]].st =
                              IF kind[ctask[c]] = "R" THEN "dropped" ELSE @]
            /\ cpc' = [cpc EXCEPT ![c] = "idle"]
            /\ ctask' = [ctask EXCEPT ![c] = NoTask]
            /\ UNCHANGED <<tasks, added>>
       ELSE /\ tasks' = Append(tasks, ctask[c])
            /\ added' = Append(added, ctask[c])
            /\ cpc' = [cpc EXCEPT ![c] = "notify"]
            /\ UNCHANGED <<outcome, future, ctask>>
    /\ UNCHANGED <<threads, stop, condition, wpc, wtask, kind, ran, joined>>
    /\ UNCHANGED taken

\* The workers of W, blocked in condition.wait, are woken: each has to take
\* the mutex again before it looks at the predicate, as at the top of the
\* loop.
Woken(W) == [w \in WorkerIds |-> IF w \in W THEN "lock" ELSE wpc[w]]

\* condition.notify_one() and the return of enqueue: lines 86, 127-128.
\* One blocked worker is woken, if there is one; enqueue<R> hands the future
\* to its caller.
ClientNotify(c) ==
    /\ cpc[c] = "notify"
    /\ \E W \in IF condition = {} THEN {{}} ELSE {{w} : w \in condition} :
          /\ condition' = condition \ W
          /\ wpc' = Woken(W)
    /\ future' = [future EXCEPT ![ctask[c]].held = (kind[ctask[c]] = "R")]
    /\ outcome' = [outcome EXCEPT ![c] =
                      IF kind[ctask[c]] = "R" THEN "future" ELSE "returned"]
    /\ cpc' = [cpc EXCEPT ![c] = "idle"]
    /\ ctask' = [ctask EXCEPT ![c] = NoTask]
    /\ UNCHANGED <<threads, stop, tasks, queue_mutex, wtask, kind, ran,
                   joined>>
    /\ UNCHANGED <<added, taken>>

\* ~ThreadPool() is entered by the thread that owns the pool: line 62.
DtorBegin ==
    /\ cpc["main"] = "idle"
    /\ cpc' = [cpc EXCEPT !["main"] = "d_lock"]
    /\ UNCHANGED <<threads, stop, tasks, queue_mutex, condition, wpc, wtask,
                   ctask, outcome, kind, future, ran, joined>>
    /\ UNCHANGED <<added, taken>>

\* stop = true under the mutex: lines 64-66.
DtorStop ==
    /\ cpc["main"] = "d_stop" /\ queue_mutex.c = {"main"}
    /\ stop' = TRUE
    /\ queue_mutex' = [queue_mutex EXCEPT !.c = {}]
    /\ cpc' = [cpc EXCEPT !["main"] = "d_notify"]
    /\ UNCHANGED <<threads, tasks, condition, wpc, wtask, ctask, outcome,
                   kind, future, ran, joined>>
    /\ UNCHANGED <<added, taken>>

\* condition.notify_all(): line 67.
DtorNotify ==
    /\ cpc["main"] = "d_notify"
    /\ condition' = {}
    /\ wpc' = Woken(condition)
    /\ cpc' = [cpc EXCEPT !["main"] = "d_join"]
    /\ UNCHANGED <<threads, stop, tasks, queue_mutex, wtask, ctask, outcome,
                   kind, future, ran, joined>>
    /\ UNCHANGED <<added, taken>>

\* worker.join() of the next worker, which has to have returned: lines
\* 68-72.
DtorJoin ==
    /\ cpc["main"] = "d_join" /\ joined < threads
    /\ wpc[joined + 1] = "exited"
    /\ joined' = joined + 1
    /\ UNCHANGED <<threads, stop, tasks, queue_mutex, condition, wpc, wtask,
                   cpc, ctask, outcome, kind, future, ran>>
    /\ UNCHANGED <<added, taken>>

\* The destructor returns and the members are destroyed: line 73.  No other
\* thread is inside a call on the pool then.
DtorEnd ==
    /\ cpc["main"] = "d_join" /\ joined = threads
    /\ \A c \in Clients \ {"main"} : cpc[c] = "idle"
    /\ cpc' = [cpc EXCEPT !["main"] = "gone"]
    /\ UNCHANGED <<threads, stop, tasks, queue_mutex, condition, wpc, wtask,
                   ctask, outcome, kind, future, ran, joined>>
    /\ UNCHANGED <<added, taken>>

\* unique_lock<mutex> lock(this->queue_mutex) of worker w (line 40), and
\* the same inside wait after a wake-up (line 42).
WorkerLock(w) ==
    /\ wpc[w] = "lock" /\ Free
    /\ queue_mutex' = [queue_mutex EXCEPT !.w = {w}]
    /\ wpc' = [wpc EXCEPT ![w] = "check"]
    /\ UNCHANGED <<threads, stop, tasks, condition, wtask, cpc, ctask,
                   outcome, kind, future, ran, joined>>
    /\ UNCHANGED <<added, taken>>

\* WorkerCheck without `this->tasks.pop()`: the front task stays queued.
WorkerCheck_nopop(w) ==
    /\ wpc[w] = "check" /\ queue_mutex.w = {w}
    /\ queue_mutex' = [queue_mutex EXCEPT !.w = {}]
    /\ IF ~stop /\ tasks = << >>
       THEN /\ condition' = condition \cup {w}
            /\ wpc' = [wpc EXCEPT ![w] = "blocked"]
            /\ UNCHANGED <<tasks, wtask, taken>>
       ELSE IF stop /\ tasks = << >>
       THEN /\ wpc' = [wpc EXCEPT ![w] = "exited"]
            /\ UNCHANGED <<tasks, wtask, condition, taken>>
       ELSE /\ wtask' = [wtask EXCEPT ![w] = Head(tasks)]
            /\ tasks' = tasks
            /\ taken' = Append(taken, Head(tasks))
            /\ wpc' = [wpc EXCEPT ![w] = "run"]
            /\ UNCHANGED condition
    /\ UNCHANGED <<threads, stop, cpc, ctask, outcome, kind, future, ran,
                   joined>>
    /\ UNCHANGED added

\* WorkerCheck with `if (this->stop) return;`: a worker leaves as soon as
\* stop is set, whatever is queued.
WorkerCheck_exitonstop(w) ==
    /\ wpc[w] = "check" /\ queue_mutex.w = {w}
    /\ queue_mutex' = [queue_mutex EXCEPT !.w = {}]
    /\ IF ~stop /\ tasks = << >>
       THEN /\ condition' = condition \cup {w}
            /\ wpc' = [wpc EXCEPT ![w] = "blocked"]
            /\ UNCHANGED <<tasks, wtask, taken>>
       ELSE IF stop
       THEN /\ wpc' = [wpc EXCEPT ![w] = "exited"]
            /\ UNCHANGED <<tasks, wtask, condition, taken>>
       ELSE /\ wtask' = [wtask EXCEPT ![w] = Head(tasks)]
            /\ tasks' = Tail(tasks)
            /\ taken' = Append(taken, Head(tasks))
            /\ wpc' = [wpc EXCEPT ![w] = "run"]
            /\ UNCHANGED condition
    /\ UNCHANGED <<threads, stop, cpc, ctask, outcome, kind, future, ran,
                   joined>>
    /\ UNCHANGED added

\* The critical section of the worker loop, lines 42-54: with the predicate
\* false the worker releases the mutex and blocks; with stop set and the
\* queue empty it returns; otherwise it takes the front task.
WorkerCheck(w) ==
    /\ wpc[w] = "check" /\ queue_mutex.w = {w}
    /\ queue_mutex' = [queue_mutex EXCEPT !.w = {}]
    /\ IF ~stop /\ tasks = << >>
       THEN /\ condition' = condition \cup {w}
            /\ wpc' = [wpc EXCEPT ![w] = "blocked"]
            /\ UNCHANGED <<tasks, wtask, taken>>
       ELSE IF stop /\ tasks = << >>
       THEN /\ wpc' = [wpc EXCEPT ![w] = "exited"]
            /\ UNCHANGED <<tasks, wtask, condition, taken>>
       ELSE /\ wtask' = [wtask EXCEPT ![w] = Head(tasks)]
            /\ tasks' = Tail(tasks)
            /\ taken' = Append(taken, Head(tasks))
            /\ wpc' = [wpc EXCEPT ![w] = "run"]
            /\ UNCHANGED condition
    /\ UNCHANGED <<threads, stop, cpc, ctask, outcome, kind, future, ran,
                   joined>>
    /\ UNCHANGED added

\* A blocked worker wakes without a notification, as wait may.
WorkerSpurious(w) ==
    /\ w \in condition
    /\ condition' = condition \ {w}
    /\ wpc' = Woken({w})
    /\ UNCHANGED <<threads, stop, tasks, queue_mutex, wtask, cpc, ctask,
                   outcome, kind, future, ran, joined>>
    /\ UNCHANGED <<added, taken>>

\* WorkerRun that stores the result in the shared state of the task queued
\* next to this one.
WorkerRun_other(w) ==
    /\ wpc[w] = "run"
    /\ ran' = [ran EXCEPT ![wtask[w]] = @ + 1]
    /\ future' = [t \in TaskIds |->
                    IF t = (wtask[w] % MaxTasks) + 1 /\ kind[t] = "R"
                    THEN [future[t] EXCEPT !.st = "ready",
                                           !.val = Result(wtask[w])]
                    ELSE future[t]]
    /\ wtask' = [wtask EXCEPT ![w] = NoTask]
    /\ wpc' = [wpc EXCEPT ![w] = "lock"]
    /\ UNCHANGED <<threads, stop, tasks, queue_mutex, condition, cpc, ctask,
                   outcome, kind, joined>>
    /\ UNCHANGED <<added, taken>>

\* task(): lines 55-57.  The task runs to its end; a task of enqueue<R>
\* runs (*pack_task_ptr)() (lines 122-124), which stores what the function
\* returned in the shared state of its own future.
WorkerRun(w) ==
    /\ wpc[w] = "run"
    /\ ran' = [ran EXCEPT ![wtask[w]] = @ + 1]
    /\ future' = [t \in TaskIds |->
                    IF t = wtask[w] /\ kind[t] = "R"
                    THEN [future[t] EXCEPT !.st = "ready", !.val = Result(t)]
                    ELSE future[t]]
    /\ wtask' = [wtask EXCEPT ![w] = NoTask]
    /\ wpc' = [wpc EXCEPT ![w] = "lock"]
    /\ UNCHANGED <<threads, stop, tasks, queue_mutex, condition, cpc, ctask,
                   outcome, kind, joined>>
    /\ UNCHANGED <<added, taken>>

\* ------------------------------------------------------------ MemoryPool
\* src/include/MySTL/vector.h, lines 967-1089.  An address is a number; the
\* chunks lie one after the other from pool_ on.

\* pool_ + (i * chunkSize_), line 1074
ChunkAt(i) == pool_ + (i * chunkSize_)

\* The addresses at which the chunks of the pool start.
ChunkStarts == {ChunkAt(i) : i \in 0..(numChunks_ - 1)}

\* MemoryPool(cs, n) with arguments the constructor accepts (lines
\* 971-992): the memory is obtained and initializePool (lines 1068-1087)
\* chains the chunks in the order of their addresses.
MemoryPool(cs, n) ==
    /\ chunkSize_ = cs
    /\ numChunks_ = n
    /\ pool_ = PoolBase
    /\ freeListHead_ = PoolBase
    /\ chunk = [i \in 0..(n - 1) |->
                   IF i < n - 1 THEN PoolBase + ((i + 1) * cs) ELSE NIL]
    /\ owned = {}
    /\ recent = NIL
    /\ mret = [op |-> "none", ptr |-> NIL, exc |-> "none"]

\* The number of the chunk that starts at address a.
ChunkOf(a) == (a - pool_) \div chunkSize_

\* allocate() that leaves the head of the free list where it is.
Allocate_stuck ==
    /\ IF freeListHead_ = NIL
       THEN /\ mret' = [op |-> "allocate", ptr |-> NIL, exc |-> "bad_alloc"]
            /\ UNCHANGED <<freeListHead_, owned>>
       ELSE /\ mret' = [op |-> "allocate", ptr |-> freeListHead_,
                        exc |-> "none"]
            /\ freeListHead_' = freeListHead_
            /\ owned' = owned \cup {freeListHead_}
    /\ recent' = NIL
    /\ UNCHANGED <<chunkSize_, numChunks_, pool_, chunk>>

\* allocate(): lines 1005-1020.
Allocate ==
    /\ IF freeListHead_ = NIL
       THEN /\ mret' = [op |-> "allocate", ptr |-> NIL, exc |-> "bad_alloc"]
            /\ UNCHANGED <<freeListHead_, owned>>
       ELSE /\ mret' = [op |-> "allocate", ptr |-> freeListHead_,
                        exc |-> "none"]
            /\ freeListHead_' = chunk[ChunkOf(freeListHead_)]
            /\ owned' = owned \cup {freeListHead_}
    /\ recent' = NIL
    /\ UNCHANGED <<chunkSize_, numChunks_, pool_, chunk>>

\* deallocate(block) of a chunk that is allocated: lines 1048-1056.
Deallocate(block) ==
    /\ block \in owned
    /\ chunk' = [chunk EXCEPT ![ChunkOf(block)] = freeListHead_]
    /\ freeListHead_' = block
    /\ owned' = owned \ {block}
    /\ recent' = block
    /\ mret' = [op |-> "deallocate", ptr |-> block, exc |-> "none"]
    /\ UNCHANGED <<chunkSize_, numChunks_, pool_>>

\* deallocate(nullptr): lines 1024-1026.
DeallocateNull ==
    /\ mret' = [op |-> "deallocate", ptr |-> NIL, exc |-> "none"]
    /\ UNCHANGED <<chunkSize_, numChunks_, pool_, freeListHead_, chunk,
                   owned, recent>>

\* The owner of an allocated chunk writes to its first bytes, the bytes
\* that hold a link while the chunk is free.
Write(block, v) ==
    /\ block \in owned
    /\ chunk' = [chunk EXCEPT ![ChunkOf(block)] = v]
    /\ mret' = [op |-> "write", ptr |-> block, exc |-> "none"]
    /\ UNCHANGED <<chunkSize_, numChunks_, pool_, freeListHead_, owned,
                   recent>>

\* ------------------------------------------------------------ shared_ptr
\* src/include/MySTL/vector.h, lines 432-584.

PtrIds == 1..MaxPtrs
ObjIds == 1..MaxObjs

\* No shared_ptr exists and no object has been made.
NoShared ==
    /\ alive = {}
    /\ ptr = [h \in PtrIds |-> NIL]
    /\ control_block = [h \in PtrIds |-> NIL]
    /\ shared_count = [o \in ObjIds |-> 0]
    /\ weak_count = [o \in ObjIds |-> 0]
    /\ made = {}
    /\ deleted = [o \in ObjIds |-> 0]
    /\ freed = [o \in ObjIds |-> 0]

\* The blocks and the objects, as one value.
Blocks ==
    [shared_count |-> shared_count, weak_count |-> weak_count,
     deleted |-> deleted, freed |-> freed]

\* delete ptr;  control_block->weak_count--;  if (control_block->weak_count
\* == 0) delete control_block;  (lines 508-512)
release_last(b, o, cb) ==
    Bind([b EXCEPT !.deleted[o] = @ + 1, !.weak_count[cb] = @ - 1],
         LAMBDA d :
            IF d.weak_count[cb] = 0
            THEN [d EXCEPT !.freed[cb] = @ + 1]
            ELSE d)

\* release() of an instance with the fields o = ptr and cb = control_block:
\* lines 503-514.  The inner test reads the pointer control_block, not the
\* count.
release(b, o, cb) ==
    IF cb # NIL
    THEN Bind([b EXCEPT !.shared_count[cb] = @ - 1],
              LAMBDA d : IF cb = 0 THEN release_last(d, o, cb) ELSE d)
    ELSE b

\* The blocks and the objects take the value b.
StoreBlocks(b) ==
    /\ shared_count' = b.shared_count
    /\ weak_count' = b.weak_count
    /\ deleted' = b.deleted
    /\ freed' = b.freed

\* shared_ptr(T* p) with p a new object: line 517-518; ControlBlock():
\* line 439.
Construct(h, o) ==
    /\ h \notin alive /\ o \notin made
    /\ alive' = alive \cup {h}
    /\ made' = made \cup {o}
    /\ ptr' = [ptr EXCEPT ![h] = o]
    /\ control_block' = [control_block EXCEPT ![h] = o]
    /\ shared_count' = [shared_count EXCEPT ![o] = 1]
    /\ weak_count' = [weak_count EXCEPT ![o] = 1]
    /\ UNCHANGED <<deleted, freed>>

\* shared_ptr(): line 517-518 with p = nullptr.
ConstructNull(h) ==
    /\ h \notin alive
    /\ alive' = alive \cup {h}
    /\ ptr' = [ptr EXCEPT ![h] = NIL]
    /\ control_block' = [control_block EXCEPT ![h] = NIL]
    /\ UNCHANGED <<shared_count, weak_count, made, deleted, freed>>

\* shared_ptr(const shared_ptr& other): lines 523-529.
CopyConstruct(h, other) ==
    /\ h \notin alive /\ other \in alive
    /\ alive' = alive \cup {h}
    /\ ptr' = [ptr EXCEPT ![h] = ptr[other]]
    /\ control_block' = [control_block EXCEPT ![h] = control_block[other]]
    /\ shared_count' =
          IF control_block[other] # NIL
          THEN [shared_count EXCEPT ![control_block[other]] = @ + 1]
          ELSE shared_count
    /\ UNCHANGED <<weak_count, made, deleted, freed>>

\* operator=(const shared_ptr& other): lines 541-550.
CopyAssign(h, other) ==
    /\ h \in alive /\ other \in alive
    /\ IF h # other
       THEN /\ ptr' = [ptr EXCEPT ![h] = ptr[other]]
            /\ control_block' =
                  [control_block EXCEPT ![h] = control_block[other]]
            /\ StoreBlocks(
                  Bind(release(Blocks, ptr[h], control_block[h]),
                       LAMBDA d :
                          IF control_block[other] # NIL
                          THEN [d EXCEPT
                                  !.shared_count[control_block[other]] = @ + 1]
                          ELSE d))
       ELSE UNCHANGED <<ptr, control_block, shared_count, weak_count,
                        deleted, freed>>
    /\ UNCHANGED <<alive, made>>

\* shared_ptr(shared_ptr&& other): lines 553-557.
MoveConstruct(h, other) ==
    /\ h \notin alive /\ other \in alive
    /\ alive' = alive \cup {h}
    /\ ptr' = [ptr EXCEPT ![h] = ptr[other], ![other] = NIL]
    /\ control_block' =
          [control_block EXCEPT ![h] = control_block[other], ![other] = NIL]
    /\ UNCHANGED <<shared_count, weak_count, made, deleted, freed>>

\* operator=(shared_ptr&& other): lines 560-569.
MoveAssign(h, other) ==
    /\ h \in alive /\ other \in alive
    /\ IF h # other
       THEN /\ ptr' = [ptr EXCEPT ![h] = ptr[other], ![other] = NIL]
            /\ control_block' =
                  [control_block EXCEPT ![h] = control_block[other],
                                        ![other] = NIL]
            /\ StoreBlocks(release(Blocks, ptr[h], control_block[h]))
       ELSE UNCHANGED <<ptr, control_block, shared_count, weak_count,
                        deleted, freed>>
    /\ UNCHANGED <<alive, made>>

\* ~shared_ptr(): lines 572-574.
Destroy(h) ==
    /\ h \in alive
    /\ alive' = alive \ {h}
    /\ StoreBlocks(release(Blocks, ptr[h], control_block[h]))
    /\ UNCHANGED <<ptr, control_block, made>>

\* ------------------------------------------------------------------ list
\* src/include/MySTL/vector.h, lines 587-953.  The element nodes are
\* numbered 1..MaxElems; new takes the least number not in use; the two
\* sentinels bear the next two numbers.

ElemIds == 1..MaxElems
HeadId == MaxElems + 1
TailId == MaxElems + 2

\* list(): lines 826-832; Node(): line 603.
EmptyList ==
    [head |-> HeadId, tail |-> TailId, size_ |-> 0,
     prev |-> [n \in 1..TailId |-> IF n = TailId THEN HeadId ELSE NIL],
     next |-> [n \in 1..TailId |-> IF n = HeadId THEN TailId ELSE NIL],
     data |-> [n \in 1..TailId |-> 0],
     elems |-> {}, gone |-> {}, st |-> "ok"]

\* No call has been made on the list.
NoList ==
    /\ list = EmptyList
    /\ lcall = [op |-> "list", value |-> 0]

\* A pointer that may be dereferenced: it is not null and its node has not
\* been deleted.
Valid(l, n) == n # NIL /\ n \notin l.gone

\* The behaviour is undefined from here on.
Undefined(l) == [l EXCEPT !.st = "undefined"]

\* n->prev = v and n->next = v
SetPrev(l, n, v) ==
    IF l.st # "ok" THEN l
    ELSE IF Valid(l, n) THEN [l EXCEPT !.prev[n] = v] ELSE Undefined(l)

SetNext(l, n, v) ==
    IF l.st # "ok" THEN l
    ELSE IF Valid(l, n) THEN [l EXCEPT !.next[n] = v] ELSE Undefined(l)

\* n->prev and n->next, read
GetPrev(l, n) == IF Valid(l, n) THEN l.prev[n] ELSE NIL
GetNext(l, n) == IF Valid(l, n) THEN l.next[n] ELSE NIL

\* The list after a read through n.
Deref(l, n) ==
    IF l.st # "ok" THEN l ELSE IF Valid(l, n) THEN l ELSE Undefined(l)

\* The node that new Node(value) returns.
FreshElem(l) ==
    CHOOSE n \in ElemIds \ l.elems : \A m \in ElemIds \ l.elems : n <= m

\* new Node(value): line 604.
Alloc(l, node, value) ==
    [l EXCEPT !.elems = @ \cup {node}, !.gone = @ \ {node},
              !.data[node] = value, !.prev[node] = NIL, !.next[node] = NIL]

\* delete node
Delete(l, node) ==
    IF l.st # "ok" THEN l
    ELSE IF Valid(l, node)
         THEN [l EXCEPT !.elems = @ \ {node}, !.gone = @ \cup {node}]
         ELSE Undefined(l)

\* ++size_ and --size_; size_t wraps, which the bounds keep from happening
Resize(l, d) == IF l.st # "ok" THEN l ELSE [l EXCEPT !.size_ = @ + d]

\* push_back(value): lines 870-878.
push_back(l, value) ==
    Bind(FreshElem(l), LAMBDA node :
    Bind(Alloc(l, node, value), LAMBDA l0 :
    Bind(SetPrev(Deref(l0, l0.tail), node, GetPrev(l0, l0.tail)), LAMBDA l1 :
    Bind(SetNext(l1, node, l1.tail), LAMBDA l2 :
    Bind(SetPrev(l2, l2.tail, node), LAMBDA l3 :
    Bind(SetNext(Deref(l3, l3.tail), GetPrev(l3, l3.tail), node), LAMBDA l4 :
         Resize(l4, 1)))))))

\* emplace_back(args...): lines 941-950.
emplace_back(l, value) ==
    Bind(FreshElem(l), LAMBDA node :
    Bind(Alloc(l, node, value), LAMBDA l0 :
    Bind(SetPrev(Deref(l0, l0.tail), node, GetPrev(l0, l0.tail)), LAMBDA l1 :
    Bind(SetNext(l1, node, l1.tail), LAMBDA l2 :
    Bind(SetNext(Deref(l2, l2.tail), GetPrev(l2, l2.tail), node), LAMBDA l3 :
    Bind(SetPrev(l3, l3.tail, node), LAMBDA l4 :
         Resize(l4, 1)))))))

\* push_front(value): lines 880-888.
push_front(l, value) ==
    Bind(FreshElem(l), LAMBDA node :
    Bind(Alloc(l, node, value), LAMBDA l0 :
    Bind(SetNext(Deref(l0, l0.head), node, GetNext(l0, l0.head)), LAMBDA l1 :
    Bind(SetPrev(l1, node, l1.head), LAMBDA l2 :
    Bind(SetPrev(Deref(l2, l2.head), GetNext(l2, l2.head), node), LAMBDA l3 :
    Bind(SetNext(l3, l3.head, node), LAMBDA l4 :
         Resize(l4, 1)))))))

\* pop_back(): lines 890-899.
pop_back(l) ==
    IF l.size_ = 0 THEN l
    ELSE Bind(GetPrev(l, l.tail), LAMBDA node :
         Bind(SetNext(Deref(Deref(l, l.tail), node), GetPrev(l, node),
                      l.tail), LAMBDA l1 :
         Bind(SetPrev(l1, l1.tail, GetPrev(l1, node)), LAMBDA l2 :
              Resize(Delete(l2, node), -1))))

\* pop_front(): lines 901-910.
pop_front(l) ==
    IF l.size_ = 0 THEN l
    ELSE Bind(GetNext(l, l.head), LAMBDA node :
         Bind(SetNext(Deref(Deref(l, l.head), node), l.head,
                      GetNext(l, node)), LAMBDA l1 :
         Bind(SetPrev(l1, GetNext(l1, node), l1.head), LAMBDA l2 :
              Resize(Delete(l2, node), -1))))

\* One call on the list, recorded.
ListCall(op, value, l) ==
    /\ list.st = "ok"
    /\ list' = l
    /\ lcall' = [op |-> op, value |-> value]

\* Forward traversal: for (it = begin(); it != end(); ++it) read *it;
\* lines 749-757 and 709-713.  A traversal that leaves the nodes or does
\* not end within fuel steps reads the marker -1 last.
RECURSIVE Forward(_, _, _)
Forward(l, n, fuel) ==
    IF n = l.tail THEN << >>
    ELSE IF fuel = 0 \/ ~Valid(l, n) THEN <<-1>>
    ELSE <<l.data[n]>> \o Forward(l, l.next[n], fuel - 1)

\* Backward traversal: for (it = rbegin(); it != rend(); ++it) read *it;
\* lines 816-824 and 780-784.
RECURSIVE Backward(_, _, _)
Backward(l, n, fuel) ==
    IF n = l.head THEN << >>
    ELSE IF fuel = 0 \/ ~Valid(l, n) THEN <<-1>>
    ELSE <<l.data[n]>> \o Backward(l, l.prev[n], fuel - 1)

\* erase(pos) of the list, pos at an element node: lines 926-938.
list_erase(l, node) ==
    IF node = l.head \/ node = l.tail THEN l
    ELSE Bind(SetNext(Deref(l, node), GetPrev(l, node), GetNext(l, node)),
              LAMBDA l1 :
         Bind(SetPrev(l1, GetNext(l, node), GetPrev(l, node)), LAMBDA l2 :
              Resize(Delete(l2, node), -1)))

\* --------------------------------------------------------- unordered_map
\* src/include/MySTL/unordered_map.h.  buckets[i] of the code is
\* buckets[i + 1] here.

\* std::hash<int>, line 27: the value itself.
hash_func(key) == key

\* unordered_map(n): lines 135-138; vector::resize default-constructs the
\* lists.
unordered_map(n) ==
    [buckets |-> [i \in 1..n |-> EmptyList], bucket_count |-> n,
     elem_count |-> 0]

\* No call has been made on the map.
NoMap(n) ==
    /\ map = unordered_map(n)
    /\ mcall = [op |-> "unordered_map", key |-> 0, ret |-> FALSE]

\* for (auto& node : l) if (node.key == key): the first node from begin()
\* that holds key, or NIL at end().
RECURSIVE Scan(_, _, _, _)
Scan(l, n, key, fuel) ==
    IF n = l.tail \/ fuel = 0 \/ ~Valid(l, n) THEN NIL
    ELSE IF l.data[n].key = key THEN n
    ELSE Scan(l, l.next[n], key, fuel - 1)

\* The node of bucket idx that a scan for key stops at.
Found(m, idx, key) ==
    Scan(m.buckets[idx + 1], m.buckets[idx + 1].next[m.buckets[idx + 1].head],
         key, MaxElems + 2)

\* The elements that the loops of rehash visit, bucket after bucket, each
\* bucket from begin() to end(): lines 116-117.
RECURSIVE Visited(_, _)
Visited(m, i) ==
    IF i >= m.bucket_count THEN << >>
    ELSE Forward(m.buckets[i + 1], m.buckets[i + 1].next[m.buckets[i + 1].head],
                 MaxElems + 2)
         \o Visited(m, i + 1)

\* new_buckets after push_back of the elements es: lines 118-120.
RECURSIVE Refill(_, _, _)
Refill(nb, es, n) ==
    IF es = << >> THEN nb
    ELSE Bind((hash_func(Head(es).key) % n) + 1, LAMBDA j :
              Refill([nb EXCEPT ![j] = push_back(nb[j], Head(es))],
                     Tail(es), n))

\* rehash(new_bucket_count): lines 112-125.
rehash(m, n) ==
    [m EXCEPT !.buckets = Refill([i \in 1..n |-> EmptyList], Visited(m, 0), n),
              !.bucket_count = n]

\* check_rehash(): lines 127-132; load_factor is 0.75f.
check_rehash(m) ==
    IF 4 * m.elem_count > 3 * m.bucket_count
    THEN rehash(m, 2 * m.bucket_count)
    ELSE m

\* buckets[idx].push_back(Node(key, value)); ++elem_count;
Emplace(m, idx, key, value) ==
    [m EXCEPT !.buckets[idx + 1] =
                  push_back(@, [key |-> key, value |-> value]),
              !.elem_count = @ + 1]

\* insert(key, value): lines 201-213.
um_insert(m, key, value) ==
    Bind(check_rehash(m), LAMBDA m1 :
    Bind(hash_func(key) % m1.bucket_count, LAMBDA idx :
         IF Found(m1, idx, key) # NIL
         THEN [m |-> m1, ret |-> FALSE]
         ELSE [m |-> Emplace(m1, idx, key, value), ret |-> TRUE]))

\* operator[](key): lines 216-228; T{} is 0.
um_index(m, key) ==
    Bind(check_rehash(m), LAMBDA m1 :
    Bind(hash_func(key) % m1.bucket_count, LAMBDA idx :
         IF Found(m1, idx, key) # NIL
         THEN [m |-> m1, ret |-> FALSE]
         ELSE [m |-> Emplace(m1, idx, key, 0), ret |-> TRUE]))

\* erase(key): lines 242-254.
um_erase(m, key) ==
    Bind(hash_func(key) % m.bucket_count, LAMBDA idx :
    Bind(Found(m, idx, key), LAMBDA node :
         IF node # NIL
         THEN [m |-> [m EXCEPT !.buckets[idx + 1] = list_erase(@, node),
                               !.elem_count = @ - 1],
               ret |-> TRUE]
         ELSE [m |-> m, ret |-> FALSE]))

\* emplace(key, value): lines 256-269.
um_emplace(m, key, value) ==
    Bind(hash_func(key) % m.bucket_count, LAMBDA idx :
         IF Found(m, idx, key) # NIL
         THEN [m |-> m, ret |-> FALSE]
         ELSE [m |-> check_rehash(Emplace(m, idx, key, value)), ret |-> TRUE])

\* One call on the map, recorded; r is what it leaves and returns.
MapCall(op, key, r) ==
    /\ map' = r.m
    /\ mcall' = [op |-> op, key |-> key, ret |-> r.ret]

\* ------------------------------------------------------------- heap_sort
\* src/sort.h.  *(begin + i) of the code is a[i + 1] here.  A range is
\* carried with a flag that tells whether the call came to an end.

\* std::swap(*(begin + i), *(begin + j))
SwapAt(a, i, j) == [a EXCEPT ![i + 1] = a[j + 1], ![j + 1] = a[i + 1]]

\* largest after the two comparisons of heapify: lines 15-27.
Largest(a, heap_size, i) ==
    Bind(IF 2 * i + 1 < heap_size /\ a[2 * i + 2] > a[i + 1]
         THEN 2 * i + 1 ELSE i,
         LAMBDA largest :
            IF 2 * i + 2 < heap_size /\ a[2 * i + 3] > a[largest + 1]
            THEN 2 * i + 2 ELSE largest)

\* heapify that does not go on below the child it swapped with.
heapify_once(r, heap_size, i, fuel) ==
    IF ~r.done THEN r
    ELSE Bind(Largest(r.a, heap_size, i), LAMBDA largest :
              IF largest = i THEN r
              ELSE [r EXCEPT !.a = SwapAt(r.a, i, largest)])

\* heapify(begin, heap_size, i): lines 12-34.  fuel bounds the depth of
\* the recursion; a call that exceeds it has not come to an end.
RECURSIVE heapify(_, _, _, _)
heapify(r, heap_size, i, fuel) ==
    IF ~r.done THEN r
    ELSE Bind(Largest(r.a, heap_size, i), LAMBDA largest :
              IF largest = i THEN r
              ELSE IF fuel = 0 THEN [r EXCEPT !.done = FALSE]
              ELSE heapify([r EXCEPT !.a = SwapAt(r.a, i, largest)],
                           heap_size, largest, fuel - 1))

\* for (auto i = n / 2 - 1; i >= 0; i--) heapify(begin, n, i): lines 42-44.
RECURSIVE build_heap_loop(_, _, _)
build_heap_loop(r, n, i) ==
    IF i >= 0
    THEN build_heap_loop(heapify(r, n, i, n), n, i - 1)
    ELSE r

\* build_heap(begin, end): lines 38-45.
build_heap(a) ==
    build_heap_loop([a |-> a, done |-> TRUE], Len(a), (Len(a) \div 2) - 1)

\* for (auto i = n - 1; i > 0; i--) { swap(*begin, *(begin + i));
\* heapify(begin, i, 0); }: lines 56-60.
RECURSIVE heap_sort_loop(_, _)
heap_sort_loop(r, i) ==
    IF i > 0 /\ r.done
    THEN heap_sort_loop(heapify([r EXCEPT !.a = SwapAt(r.a, 0, i)], i, 0, i),
                        i - 1)
    ELSE r

\* heap_sort(begin, end): lines 48-61.
heap_sort(a) == heap_sort_loop(build_heap(a), Len(a) - 1)

\* A range as its owner filled it.
Unsorted(a) ==
    /\ range = a
    /\ input = a
    /\ sorting = "none"

\* One call on the fresh range, r what it leaves.
SortCall(name, r) ==
    /\ sorting = "none"
    /\ range' = r.a
    /\ sorting' = IF r.done THEN name ELSE "hung"
    /\ UNCHANGED input

\* ------------------------------------------------------------ transitions

\* rb_tree(): the empty tree, nothing called yet.
InitTree ==
    /\ root_ = EmptyHeap.root_
    /\ size_ = EmptyHeap.size_
    /\ nodes = EmptyHeap.nodes
    /\ color = EmptyHeap.color
    /\ parent = EmptyHeap.parent
    /\ left = EmptyHeap.left
    /\ right = EmptyHeap.right
    /\ data = EmptyHeap.data
    /\ st = "ok"
    /\ call = [op |-> "none", key |-> 0, val |-> 0]
    /\ ret = [node |-> NIL, ok |-> FALSE]
    /\ visited = << >>
    /\ log = << >>
    /\ twin = EmptyHeap

\* The containers that stand by, as their constructors leave them.
InitAux ==
    /\ MemoryPool(PtrSize, 1) /\ NoShared /\ NoList /\ NoMap(1)
    /\ Unsorted(<< >>)

\* The tree alone: a pool without workers stands by.
Init == InitTree /\ ThreadPool(0) /\ InitAux

\* The heap h becomes the state.
Store(h) ==
    /\ root_' = h.root_
    /\ size_' = h.size_
    /\ nodes' = h.nodes
    /\ color' = h.color
    /\ parent' = h.parent
    /\ left' = h.left
    /\ right' = h.right
    /\ data' = h.data
    /\ st' = h.st

Insert(k, v) ==
    /\ st = "ok"
    /\ \E r \in {insert(Heap, k, v)} :
       /\ Store(r.h)
       /\ call' = [op |-> "insert", key |-> k, val |-> v]
       /\ ret' = [node |-> r.node, ok |-> r.ok]

\* erase(k); elide: whether this build dropped the unused load of
\* fix_delete.
Erase(k, elide) ==
    /\ st = "ok"
    /\ \E r \in {erase(Heap, k, elide)} :
       /\ Store(r.h)
       /\ call' = [op |-> "erase", key |-> k, val |-> 0]
       /\ ret' = [node |-> NIL, ok |-> r.ok]

\* find(k) for a key that is stored: returns iterator(cur, this).
FindHit(k) ==
    /\ st = "ok"
    /\ \E d \in {find(Heap, k)} :
       /\ d.st = "ok" /\ d.cur # NIL
       /\ call' = [op |-> "find", key |-> k, val |-> 0]
       /\ ret' = [node |-> d.cur, ok |-> TRUE]
    /\ UNCHANGED <<root_, size_, nodes, color, parent, left, right, data, st>>

\* find(k) for a key that is not stored: control leaves the loop and the
\* function ends without a return statement.  The call traps, or returns
\* an iterator whose node_ is whatever the return slot held.
FindMiss(k) ==
    /\ st = "ok"
    /\ \E d \in {find(Heap, k)} : d.st = "ok" /\ d.cur = NIL
    /\ call' = [op |-> "find", key |-> k, val |-> 0]
    /\ \/ /\ st' = "crashed"
          /\ ret' = [node |-> NIL, ok |-> FALSE]
       \/ /\ st' = "ok"
          /\ \E g \in FindGarbage : ret' = [node |-> g, ok |-> TRUE]
    /\ UNCHANGED <<root_, size_, nodes, color, parent, left, right, data>>

\* A whole loop from begin() to end() by operator++ and operator!=.
Traverse ==
    /\ st = "ok"
    /\ \E w \in {iterate(Heap, begin(Heap), << >>, Fuel)} :
       /\ visited' = w.seen
       /\ st' = w.st
    /\ call' = [op |-> "traverse", key |-> 0, val |-> 0]
    /\ ret' = [node |-> end, ok |-> TRUE]
    /\ UNCHANGED <<root_, size_, nodes, color, parent, left, right, data>>

\* A call of insert, erase or find: no loop over the tree, no script.
Plain == visited' = << >> /\ UNCHANGED <<log, twin, poolVars, auxVars>>

Next ==
    \/ \E k \in Keys, v \in Values : Insert(k, v) /\ Plain
    \/ \E k \in Keys, elide \in BOOLEAN : Erase(k, elide) /\ Plain
    \/ \E k \in Keys : FindHit(k) /\ Plain
    \/ \E k \in Keys : FindMiss(k) /\ Plain
    \/ Traverse /\ UNCHANGED <<log, twin, poolVars, auxVars>>

Spec == Init /\ [][Next]_vars

\* The same calls with one key more to pass.
NextWide ==
    \/ \E k \in WideKeys, v \in Values : Insert(k, v) /\ Plain
    \/ \E k \in WideKeys, elide \in BOOLEAN : Erase(k, elide) /\ Plain
    \/ \E k \in WideKeys : FindHit(k) /\ Plain
    \/ \E k \in WideKeys : FindMiss(k) /\ Plain
    \/ Traverse /\ UNCHANGED <<log, twin, poolVars, auxVars>>

SpecWide == Init /\ [][NextWide]_vars

\* Inserts and erases of every key there is, all with one value.
NextAll ==
    \/ \E k \in AllKeys : Insert(k, MaxVal) /\ Plain
    \/ \E k \in AllKeys, elide \in BOOLEAN : Erase(k, elide) /\ Plain

SpecAll == Init /\ [][NextAll]_vars

\* Round trips: keys that are not stored are inserted, in any order, until
\* the first erase; from then on stored keys are erased, in any order.
NextRound ==
    \/ \E k \in Keys, v \in Values :
          call.op # "erase" /\ k \notin nodes /\ Insert(k, v) /\ Plain
    \/ \E k \in Keys, elide \in BOOLEAN :
          k \in nodes /\ Erase(k, elide) /\ Plain

SpecRound == Init /\ [][NextRound]_vars

\* rotate_left(x) called on its own, on a node that has a right child.
RotateLeft(x) ==
    /\ st = "ok"
    /\ x \in nodes /\ right[x] # NIL
    /\ \E r \in {rotate_left(Heap, x)} : Store(r)
    /\ call' = [op |-> "rotate_left", key |-> x, val |-> 0]
    /\ ret' = [node |-> NIL, ok |-> TRUE]

\* rotate_right(y) called on its own, on a node that has a left child.
RotateRight(y) ==
    /\ st = "ok"
    /\ y \in nodes /\ left[y] # NIL
    /\ \E r \in {rotate_right(Heap, y)} : Store(r)
    /\ call' = [op |-> "rotate_right", key |-> y, val |-> 0]
    /\ ret' = [node |-> NIL, ok |-> TRUE]

\* A rotation has been called on its own.
Rotating == call.op \in {"rotate_left", "rotate_right"}

\* The rotations as functions of the tree: inserts and erases make a tree,
\* then rotations are applied to it, one after another, at any node that
\* has the child the rotation lifts.
NextRotate ==
    \/ \E k \in Keys, v \in Values : ~Rotating /\ Insert(k, v) /\ Plain
    \/ \E k \in Keys, elide \in BOOLEAN :
          ~Rotating /\ Erase(k, elide) /\ Plain
    \/ \E x \in Keys : RotateLeft(x) /\ Plain
    \/ \E y \in Keys : RotateRight(y) /\ Plain

SpecRotate == Init /\ [][NextRotate]_vars

\* The key that stands for key k when the key order is reversed.
Opposite(k) == MaxNodes + 1 - k

\* Node n of heap h and node Opposite(n) of heap t hold each other's links
\* the other way round, with the same color.
MirrorNode(h, t, n) ==
    LET Opp(c) == IF c = NIL THEN NIL ELSE Opposite(c)
    IN /\ t.left[Opposite(n)] = Opp(h.right[n])
       /\ t.right[Opposite(n)] = Opp(h.left[n])
       /\ t.parent[Opposite(n)] = Opp(h.parent[n])
       /\ t.color[Opposite(n)] = h.color[n]

\* Heaps h and t are left-right mirror images of each other with identical
\* colors; two calls that trapped are alike.
Mirrored(h, t) ==
    /\ h.st = t.st
    /\ h.st = "ok" =>
          /\ t.root_ = (IF h.root_ = NIL THEN NIL ELSE Opposite(h.root_))
          /\ t.size_ = h.size_
          /\ t.nodes = {Opposite(n) : n \in h.nodes}
          /\ \A n \in h.nodes : MirrorNode(h, t, n)

\* The same call is made on both trees, on the twin with the opposite key:
\* insert(k, v) here and insert(Opposite(k), v) there.  The two runs go on
\* as long as the two trees are mirror images.
MirrorInsert(k, v) ==
    /\ Mirrored(Heap, twin)
    /\ Insert(k, v)
    /\ \E r \in {insert(twin, Opposite(k), v)} : twin' = r.h
    /\ visited' = << >>
    /\ UNCHANGED <<log, poolVars, auxVars>>

\* erase(k) here and erase(Opposite(k)) there, both of the same build.
MirrorErase(k, elide) ==
    /\ Mirrored(Heap, twin)
    /\ Erase(k, elide)
    /\ \E r \in {erase(twin, Opposite(k), elide)} : twin' = r.h
    /\ visited' = << >>
    /\ UNCHANGED <<log, poolVars, auxVars>>

NextMirror ==
    \/ \E k \in AllKeys : MirrorInsert(k, MaxVal)
    \/ \E k \in AllKeys, elide \in BOOLEAN : MirrorErase(k, elide)

SpecMirror == Init /\ [][NextMirror]_vars

\* What a step from heap h to heap h2 shows of fix_insert: a node that was
\* there got another parent (only a rotation does that), or two nodes that
\* were RED are BLACK (only the uncle-RED case blackens two).
Rotated(h, h2) == \E n \in h.nodes : h2.parent[n] # h.parent[n]
Recolored(h, h2) ==
    Cardinality({n \in h.nodes : h.color[n] = RED /\ h2.color[n] = BLACK}) >= 2

\* No erase has been made yet in the scripted run.
Filling == \A i \in {Len(log)} \ {0} : log[i].op = "insert"

\* The next key of the script is inserted.
ScriptInsert(k, v) ==
    /\ Filling
    /\ k = Len(log) + 1
    /\ Insert(k, v)
    /\ visited' = << >>
    /\ UNCHANGED <<twin, poolVars, auxVars>>
    /\ log' = Append(log, [op |-> "insert", key |-> k,
                           rot |-> Rotated(Heap, Heap'),
                           rec |-> Recolored(Heap, Heap')])

\* One stored key is erased; this ends the script.
ScriptErase(k, elide) ==
    /\ Filling
    /\ k \in nodes
    /\ Erase(k, elide)
    /\ visited' = << >>
    /\ UNCHANGED <<twin, poolVars, auxVars>>
    /\ log' = Append(log, [op |-> "erase", key |-> k,
                           rot |-> FALSE, rec |-> FALSE])

NextScript ==
    \/ \E k \in ScriptKeys, v \in Values : ScriptInsert(k, v)
    \/ \E k \in ScriptKeys, elide \in BOOLEAN : ScriptErase(k, elide)

SpecScript == Init /\ [][NextScript]_vars

\* A step of the pool: the tree stands by.
Pool(A) == A /\ UNCHANGED <<treeVars, auxVars>>

\* A pool constructed with any number of threads, none included.
InitPool == InitTree /\ InitAux /\ \E n \in 0..MaxThreads : ThreadPool(n)

NextPool ==
    \/ \E c \in Clients : Pool(EnqueueR(c))
    \/ \E c \in Clients : Pool(EnqueueVoid(c))
    \/ \E c \in Clients, r \in BOOLEAN : Pool(EnqueueEmpty(c, r))
    \/ \E c \in Clients : Pool(ClientLock(c))
    \/ \E c \in Clients : Pool(ClientQueue(c))
    \/ \E c \in Clients : Pool(ClientNotify(c))
    \/ Pool(DtorBegin)
    \/ Pool(DtorStop)
    \/ Pool(DtorNotify)
    \/ Pool(DtorJoin)
    \/ Pool(DtorEnd)
    \/ \E w \in WorkerIds : Pool(WorkerLock(w))
    \/ \E w \in WorkerIds : Pool(WorkerCheck(w))
    \/ \E w \in WorkerIds : Pool(WorkerSpurious(w))
    \/ \E w \in WorkerIds : Pool(WorkerRun(w))

SpecPool == InitPool /\ [][NextPool]_vars

\* Fair scheduling: a thread that can take a step of a call it is in, or of
\* the worker loop, takes it; a thread that can take the mutex again and
\* again gets it.  Nobody has to begin a call.
PoolFair ==
    /\ \A w \in WorkerIds :
          /\ SF_vars(Pool(WorkerLock(w)))
          /\ WF_vars(Pool(WorkerCheck(w)))
          /\ WF_vars(Pool(WorkerRun(w)))
    /\ \A c \in Clients :
          /\ SF_vars(Pool(ClientLock(c)))
          /\ WF_vars(Pool(ClientQueue(c)))
          /\ WF_vars(Pool(ClientNotify(c)))
    /\ WF_vars(Pool(DtorStop))
    /\ WF_vars(Pool(DtorNotify))
    /\ WF_vars(Pool(DtorJoin))
    /\ WF_vars(Pool(DtorEnd))

SpecPoolFair == SpecPool /\ PoolFair

\* A MemoryPool of any number of chunks, of the least chunk size or twice
\* that; its owner allocates, gives back what it holds and writes to what
\* it holds.
InitMem ==
    /\ InitTree /\ ThreadPool(0)
    /\ NoShared /\ NoList /\ NoMap(1)
    /\ Unsorted(<< >>)
    /\ \E cs \in {PtrSize, 2 * PtrSize}, n \in 1..MaxChunks :
          MemoryPool(cs, n)

\* What a step of the MemoryPool leaves alone.
Mem(A) ==
    A /\ UNCHANGED <<treeVars, poolVars, sharedVars, listVars, mapVars,
                     sortVars>>

NextMem ==
    \/ Mem(Allocate)
    \/ \E block \in owned : Mem(Deallocate(block))
    \/ Mem(DeallocateNull)
    \/ \E block \in owned, v \in ChunkStarts \cup {NIL, Stray} :
          Mem(Write(block, v))

SpecMem == InitMem /\ [][NextMem]_vars

\* shared_ptr instances are constructed from new objects, from nothing and
\* from one another, assigned to one another and destroyed, in any order.
Shared(A) ==
    A /\ UNCHANGED <<treeVars, poolVars, memVars, listVars, mapVars,
                     sortVars>>

NextShared ==
    \/ \E h \in PtrIds, o \in ObjIds : Shared(Construct(h, o))
    \/ \E h \in PtrIds : Shared(ConstructNull(h))
    \/ \E h \in PtrIds, other \in PtrIds : Shared(CopyConstruct(h, other))
    \/ \E h \in PtrIds, other \in PtrIds : Shared(CopyAssign(h, other))
    \/ \E h \in PtrIds, other \in PtrIds : Shared(MoveConstruct(h, other))
    \/ \E h \in PtrIds, other \in PtrIds : Shared(MoveAssign(h, other))
    \/ \E h \in PtrIds : Shared(Destroy(h))

SpecShared == Init /\ [][NextShared]_vars

\* Values are pushed to and popped from either end of a list while it has
\* room and its behaviour is defined.
List(A) ==
    A /\ UNCHANGED <<treeVars, poolVars, memVars, sharedVars, mapVars,
                     sortVars>>

HasRoom == list.elems # ElemIds

NextList ==
    \/ \E v \in 1..MaxVal :
          List(HasRoom /\ ListCall("push_back", v, push_back(list, v)))
    \/ \E v \in 1..MaxVal :
          List(HasRoom /\ ListCall("emplace_back", v, emplace_back(list, v)))
    \/ \E v \in 1..MaxVal :
          List(HasRoom /\ ListCall("push_front", v, push_front(list, v)))
    \/ List(ListCall("pop_back", 0, pop_back(list)))
    \/ List(ListCall("pop_front", 0, pop_front(list)))

SpecList == Init /\ [][NextList]_vars

\* A map constructed with any bucket count; keys are inserted, looked up
\* with [], emplaced and erased while the lists have room.
Map(A) ==
    A /\ UNCHANGED <<treeVars, poolVars, memVars, sharedVars, listVars,
                     sortVars>>

InitMap ==
    /\ InitTree /\ ThreadPool(0)
    /\ MemoryPool(PtrSize, 1) /\ NoShared /\ NoList /\ Unsorted(<< >>)
    /\ \E n \in 1..MaxBuckets : NoMap(n)

MapHasRoom == map.elem_count < MaxElems

NextMap ==
    \/ \E k \in 1..MaxKey, v \in 1..MaxVal :
          Map(MapHasRoom /\ MapCall("insert", k, um_insert(map, k, v)))
    \/ \E k \in 1..MaxKey :
          Map(MapHasRoom /\ MapCall("operator[]", k, um_index(map, k)))
    \/ \E k \in 1..MaxKey, v \in 1..MaxVal :
          Map(MapHasRoom /\ MapCall("emplace", k, um_emplace(map, k, v)))
    \/ \E k \in 1..MaxKey : Map(MapCall("erase", k, um_erase(map, k)))

SpecMap == InitMap /\ [][NextMap]_vars

\* Every range of up to MaxLen elements, each from 0 to MaxVal; build_heap
\* or heap_sort is called on it.
Ranges == UNION {[1..n -> 0..MaxVal] : n \in 0..MaxLen}

InitSort ==
    /\ InitTree /\ ThreadPool(0)
    /\ MemoryPool(PtrSize, 1) /\ NoShared /\ NoList /\ NoMap(1)
    /\ \E a \in Ranges : Unsorted(a)

Sort(A) ==
    A /\ UNCHANGED <<treeVars, poolVars, memVars, sharedVars, listVars,
                     mapVars>>

NextSort ==
    \/ Sort(SortCall("build_heap", build_heap(range)))
    \/ Sort(SortCall("heap_sort", heap_sort(range)))

SpecSort == InitSort /\ [][NextSort]_vars

\* ------------------------------------------------------- reading the tree

\* The present children of node n.
Kids(n) == {left[n], right[n]} \ {NIL}

\* The nodes reachable from the nodes of S by left and right links.
RECURSIVE Closure(_, _)
Closure(S, fuel) ==
    IF fuel = 0 \/ (UNION {Kids(n) : n \in S}) \subseteq S THEN S
    ELSE Closure(S \cup UNION {Kids(n) : n \in S}, fuel - 1)

\* The nodes of the subtree whose top is n (none for an absent n).
Subtree(n) == IF n = NIL THEN {} ELSE Closure({n}, MaxNodes)

\* The nodes reachable from the root.
Reachable == Subtree(root_)

\* The numbers of BLACK nodes on the paths from n down to an absent child;
\* -1 stands for a path longer than any path of a tree can be.
RECURSIVE BlackCounts(_, _)
BlackCounts(n, fuel) ==
    IF n = NIL THEN {0}
    ELSE IF fuel = 0 THEN {-1}
    ELSE LET own == IF color[n] = BLACK THEN 1 ELSE 0
         IN {c + own : c \in BlackCounts(left[n], fuel - 1)
                             \cup BlackCounts(right[n], fuel - 1)}

\* The last public call has returned to its caller.
Returned == st = "ok"

\* ------------------------------------------------------------- properties

\* C1: after every insert or erase call that returns, every node's left
\* subtree holds only smaller keys and its right subtree only greater keys.
C1_BstOrder ==
    Returned =>
        \A n \in Reachable :
            /\ \A m \in Subtree(left[n]) : m < n
            /\ \A m \in Subtree(right[n]) : m > n

\* A successful erase has returned and left a tree of three or more nodes
\* with a node that has both children.
C1_Witness ==
    /\ Returned /\ call.op = "erase" /\ ret.ok
    /\ Cardinality(Reachable) >= 3
    /\ \E n \in Reachable : left[n] # NIL /\ right[n] # NIL

\* C2: after every insert or erase call that returns, no RED node has a
\* present RED child.
C2_NoRedRed ==
    Returned =>
        \A n \in Reachable :
            color[n] = RED => \A c \in Kids(n) : color[c] # RED

\* C3: after every insert or erase call that returns, all paths from a node
\* down to an absent child hold the same number of BLACK nodes.
C3_BlackHeight ==
    Returned =>
        \A n \in Reachable :
            /\ Cardinality(BlackCounts(n, MaxNodes + 1)) = 1
            /\ -1 \notin BlackCounts(n, MaxNodes + 1)

\* C4: after every insert or erase call that returns, the root of a
\* non-empty tree is BLACK.
C4_RootBlack ==
    Returned => (root_ # NIL => color[root_] = BLACK)

\* An insert has returned whose uncle-RED recoloring reached the root: the
\* new node is RED below a BLACK parent whose sibling is BLACK too, both
\* children of the root.
C4_Witness ==
    /\ Returned /\ call.op = "insert" /\ ret.ok
    /\ color[call.key] = RED
    /\ parent[call.key] # NIL
    /\ parent[parent[call.key]] = root_
    /\ left[root_] # NIL /\ right[root_] # NIL
    /\ color[left[root_]] = BLACK /\ color[right[root_]] = BLACK

\* C5: after every insert or erase call that returns, size() is the number
\* of nodes reachable from the root, and empty() holds exactly when there
\* is no root.
C5_Size ==
    Returned =>
        /\ size_ = Cardinality(Reachable)
        /\ (size_ = 0) <=> (root_ = NIL)

\* A successful erase has returned and two or more nodes are left.
C5_Witness ==
    /\ Returned /\ call.op = "erase" /\ ret.ok
    /\ size_ >= 2 /\ root_ # NIL

\* The tree itself: everything but the call record and the status.
tree == <<root_, size_, nodes, color, parent, left, right, data>>

\* C6: insert(key, value) of a key that is not stored returns (the new
\* node, true), raises size() by one, leaves key findable with value under
\* it, and keeps every other stored key with its value.
C6_InsertNew ==
    [][(call'.op = "insert" /\ call'.key \notin Reachable) =>
           /\ st' = "ok"
           /\ ret' = [node |-> call'.key, ok |-> TRUE]
           /\ size_' = size_ + 1
           /\ Reachable' = Reachable \cup {call'.key}
           /\ data'[call'.key] = call'.val
           /\ \A m \in Reachable : data'[m] = data[m]]_vars

\* C7: insert(key, value) of a stored key returns (the node holding key,
\* false) and changes neither shape, colors, values nor size.
C7_InsertDuplicate ==
    [][(call'.op = "insert" /\ call'.key \in Reachable) =>
           /\ st' = "ok"
           /\ ret' = [node |-> call'.key, ok |-> FALSE]
           /\ UNCHANGED tree]_vars

\* An insert of a stored key, with another value than the stored one, has
\* returned.
C7_Witness ==
    /\ Returned /\ call.op = "insert" /\ ~ret.ok
    /\ call.key \in Reachable
    /\ data[call.key] # call.val

\* C8: erase(key) of a stored key returns true, lowers size() by one,
\* removes key and keeps every other stored key with its value.
C8_ErasePresent ==
    [][(call'.op = "erase" /\ call'.key \in Reachable) =>
           /\ st' = "ok"
           /\ ret'.ok = TRUE
           /\ size_' = size_ - 1
           /\ Reachable' = Reachable \ {call'.key}
           /\ \A m \in Reachable' : data'[m] = data[m]]_vars

\* C9: erase(key) of a key that is not stored returns false and changes
\* neither shape, colors, values, root nor size.
C9_EraseAbsent ==
    [][(call'.op = "erase" /\ call'.key \notin Reachable) =>
           /\ st' = "ok"
           /\ ret'.ok = FALSE
           /\ UNCHANGED tree]_vars

\* An erase of a key that is not stored has returned from a non-empty tree.
C9_Witness ==
    /\ Returned /\ call.op = "erase" /\ ~ret.ok
    /\ call.key \notin Reachable
    /\ root_ # NIL

\* C10: find(key) of a key that is not stored returns the iterator end(),
\* whose node_ is nullptr.
C10_FindAbsent ==
    (call.op = "find" /\ call.key \notin Reachable) =>
        (st = "ok" /\ ret.node = NIL)

\* The keys of s, each greater than the one before it.
Ascending(s) == \A i \in 1..(Len(s) - 1) : s[i] < s[i + 1]

\* C11: find(key) of a stored key returns a handle to the node that holds
\* key and leaves the tree as it was.
C11_FindPresent ==
    [][(call'.op = "find" /\ call'.key \in Reachable) =>
           /\ st' = "ok"
           /\ ret' = [node |-> call'.key, ok |-> TRUE]
           /\ UNCHANGED tree]_vars

\* A find has returned the handle of a stored key that is two levels below
\* the root.
C11_Witness ==
    /\ Returned /\ call.op = "find" /\ ret.ok
    /\ ret.node = call.key /\ call.key \in Reachable
    /\ parent[call.key] # NIL /\ parent[parent[call.key]] = root_

\* C12: a loop from begin() by ++ until end() visits every stored key
\* exactly once, in strictly ascending order, and ends after exactly
\* size() advances; on an empty tree begin() equals end().
C12_Traversal ==
    call.op = "traverse" =>
        /\ st = "ok"
        /\ Ascending(visited)
        /\ {visited[i] : i \in 1..Len(visited)} = Reachable
        /\ Len(visited) = size_
        /\ (root_ = NIL => begin(Heap) = end)

\* A loop has visited four keys of a tree in which a node of the left
\* subtree is a right child without a right child of its own: its successor
\* is found by climbing past its parent, and the loop went on into the
\* right subtree of the root.
C12_Witness ==
    /\ Returned /\ call.op = "traverse"
    /\ Len(visited) >= 4
    /\ right[root_] # NIL
    /\ \E n \in Subtree(left[root_]) :
           right[n] = NIL /\ n = right[parent[n]]

\* C13: in a run that inserts distinct keys and then erases them all, every
\* call returns, and once the last key is erased size() is 0, the root is
\* absent and begin() equals end().
C13_RoundTrip ==
    /\ st = "ok"
    /\ (call.op = "erase" /\ nodes = {}) =>
           (size_ = 0 /\ root_ = NIL /\ begin(Heap) = end)

\* C14: erase of the only key of a 1-node tree returns true and leaves the
\* root absent and size() 0; a find that follows, on any key, returns end().
C14_EraseOnlyKey ==
    [][/\ (call'.op = "erase" /\ size_ = 1 /\ Reachable = {call'.key}) =>
              /\ st' = "ok"
              /\ ret'.ok = TRUE
              /\ root_' = NIL
              /\ size_' = 0
       /\ (call'.op = "find" /\ call.op = "erase" /\ ret.ok /\ root_ = NIL) =>
              /\ st' = "ok"
              /\ ret'.node = end]_vars

\* The calls of the scripted run so far, as <<op, key>> pairs.
Calls == [i \in 1..Len(log) |-> <<log[i].op, log[i].key>>]

\* The script has inserted exactly the keys 1..n, in this order.
InsertedUpTo(n) ==
    Calls = [i \in 1..n |-> <<"insert", i>>]

\* All four red-black properties of the tree as it stands.
RedBlack ==
    C1_BstOrder /\ C2_NoRedRed /\ C3_BlackHeight /\ C4_RootBlack

\* C15: after the inserts of 10, 20, 30 in this order (here the keys 1, 2, 3,
\* which compare alike) 20 is the BLACK root with 10 and 30 its RED left and
\* right children; erasing 20 then returns true, makes 10 or 30 the root,
\* keeps the red-black properties and leaves size() 2.
C15_ThreeKeys ==
    /\ InsertedUpTo(3) =>
           /\ st = "ok"
           /\ root_ = 2 /\ color[2] = BLACK
           /\ left[2] = 1 /\ color[1] = RED
           /\ right[2] = 3 /\ color[3] = RED
    /\ Calls = [i \in 1..3 |-> <<"insert", i>>] \o << <<"erase", 2>> >> =>
           /\ st = "ok"
           /\ ret.ok = TRUE
           /\ root_ \in {1, 3}
           /\ Reachable = {1, 3}
           /\ RedBlack
           /\ size_ = 2

\* The script insert 1, 2, 3, erase 2 has run and returned.
C15_Witness ==
    /\ Returned
    /\ Calls = [i \in 1..3 |-> <<"insert", i>>] \o << <<"erase", 2>> >>

\* C16: while the keys 1, 2, ..., 7 are inserted in ascending order every
\* insert returns and leaves BST order, a BLACK root, no RED node with a RED
\* child and equal black heights; by the seventh insert there has been a
\* rotation and an uncle-RED recoloring.
C16_Ascending ==
    /\ (\E n \in 0..7 : InsertedUpTo(n)) => (st = "ok" /\ RedBlack)
    /\ InsertedUpTo(7) =>
           /\ \E i \in 1..7 : log[i].rot
           /\ \E i \in 1..7 : log[i].rec

\* The seven inserts have run and returned.
C16_Witness == Returned /\ InsertedUpTo(7) /\ Reachable = 1..7

\* The number of nodes on the longest path from n down to an absent child.
RECURSIVE Height(_, _)
Height(n, fuel) ==
    IF n = NIL \/ fuel = 0 THEN 0
    ELSE LET l == Height(left[n], fuel - 1)
             r == Height(right[n], fuel - 1)
         IN 1 + (IF l > r THEN l ELSE r)

\* C17: after every call that returns, the height h of a tree of n nodes is
\* at most 2*log2(n+1), that is 2^h <= (n+1)^2.
C17_Height ==
    Returned =>
        2 ^ Height(root_, MaxNodes)
            <= (Cardinality(Reachable) + 1) * (Cardinality(Reachable) + 1)

\* What erase(k) of a stored key k removes from the tree as it stands: the
\* node y taken out of its place, its color, and the node x that moves into
\* y's place (NIL: none).
Removal(k) ==
    IF left[k] # NIL /\ right[k] # NIL
    THEN LET y == minimum(Heap, right[k])
         IN [y |-> y, yc |-> color[y], x |-> right[y]]
    ELSE [y |-> k, yc |-> color[k],
          x |-> IF left[k] # NIL THEN left[k] ELSE right[k]]

\* C19: when erase takes a BLACK node out of a red-black tree and no node
\* moves into its place, the call returns (the absent node is not
\* dereferenced) and all red-black properties hold afterwards.
C19_EraseBlackLeaf ==
    [][(/\ call'.op = "erase" /\ call'.key \in Reachable
        /\ RedBlack
        /\ Removal(call'.key).yc = BLACK
        /\ Removal(call'.key).x = NIL) =>
           /\ st' = "ok"
           /\ ret'.ok = TRUE
           /\ RedBlack']_vars

\* The slot the descent for key k ends at: P is the node the new node would
\* hang below, G is P's parent, U the other child of G.
Slot(k) ==
    LET P == descend(Heap, root_, NIL, k, Fuel).parent
        G == IF P = NIL THEN NIL ELSE parent[P]
    IN [P |-> P, G |-> G,
        U |-> IF G = NIL THEN NIL
              ELSE IF left[G] = P THEN right[G] ELSE left[G]]

\* Key k would become an inner grandchild: the child of a RED parent P on
\* the side opposite to the side P has below G, the uncle BLACK or absent.
InnerCase(k) ==
    LET s == Slot(k)
    IN /\ s.P # NIL /\ s.G # NIL
       /\ color[s.P] = RED
       /\ (s.U = NIL \/ color[s.U] = BLACK)
       /\ \/ (left[s.G] = s.P /\ k > s.P)
          \/ (right[s.G] = s.P /\ k < s.P)

\* The node that stands in heap h where node g stood under its former
\* parent gp.
TopAfter(h, g, gp) ==
    IF gp = NIL THEN h.root_
    ELSE IF g < gp THEN h.left[gp] ELSE h.right[gp]

\* C20: an insert into a red-black tree that puts the new node on the
\* opposite side of its RED parent P from the side P has under G, the uncle
\* being BLACK or absent, returns with the node in G's former place BLACK,
\* no RED node with a RED child and equal black heights.
C20_InsertInner ==
    [][(/\ call'.op = "insert" /\ call'.key \notin Reachable
        /\ RedBlack
        /\ InnerCase(call'.key)) =>
           /\ st' = "ok"
           /\ ret'.ok = TRUE
           /\ color'[TopAfter(Heap', Slot(call'.key).G,
                              parent[Slot(call'.key).G])] = BLACK
           /\ RedBlack']_vars

\* C18: in a pool with at least one worker every future that enqueue<R> has
\* handed out becomes ready in the end, and a ready future holds what the
\* function of its own task returned.
C18_FutureReady ==
    /\ [](\A t \in TaskIds :
             future[t].st = "ready" => future[t].val = Result(t))
    /\ \A t \in TaskIds :
          (threads >= 1 /\ future[t].held) ~> (future[t].st = "ready")

\* Every task is of enqueue<R>, two or more of them, and all their futures
\* have been handed out and are ready, in a pool that has workers.
C18_Witness ==
    /\ threads >= 1
    /\ MaxTasks >= 2
    /\ \A t \in TaskIds : future[t].held /\ future[t].st = "ready"

\* ------------------------------------------------- what the fixups read

\* The heap as fix_insert(node) finds it when insert(k, ...) of a key that
\* is not stored calls it: the new node allocated and linked below the node
\* the descent ended at (lines 124-146).
Linked(k) ==
    Bind(descend(Heap, root_, NIL, k, Fuel), LAMBDA d :
         Link(NewNode(Heap, k, MaxVal, d.parent), k, d.parent))

\* The values `grandparent` takes (line 314) in the iterations of the loop
\* of fix_insert that starts from heap h at node.
RECURSIVE fix_insert_grandparents(_, _, _)
fix_insert_grandparents(h, node, fuel) ==
    IF h.st # "ok" \/ node = h.root_ \/ fuel = 0 THEN {}
    ELSE IF h.parent[node] = NIL THEN {}
    ELSE IF h.color[h.parent[node]] # RED THEN {}
    ELSE Bind(fix_insert_body(h, node, h.parent[node],
                              h.parent[h.parent[node]]),
              LAMBDA s : {h.parent[h.parent[node]]}
                         \cup fix_insert_grandparents(s.h, s.node, fuel - 1))

\* C21: in every iteration of the loop of fix_insert, in every insert of a
\* key that is not stored, the grandparent that the body dereferences is a
\* present node.
C21_GrandparentPresent ==
    [][(call'.op = "insert" /\ call'.key \notin Reachable) =>
           NIL \notin fix_insert_grandparents(Linked(call'.key), call'.key,
                                              Fuel)]_vars

\* erase(k) of a stored key k up to its call of fix_delete (lines 166-197):
\* [h, x, yc], the heap with the node taken out of its place, the node x
\* handed to fix_delete and the color that decides whether it is called.
Spliced(k) ==
    IF left[k] # NIL /\ right[k] # NIL
    THEN erase_two(Heap, k, minimum(Heap, right[k]))
    ELSE erase_one(Heap, k, IF left[k] # NIL THEN left[k] ELSE right[k])

\* The sibling w whose children line 373 (x the left child) or line 406
\* reads, in the iteration that starts from heap h with the locals x and
\* parent: the other child of parent after case 1.
fix_delete_w(h, x, par) ==
    IF x = h.left[par] THEN fix_delete_l1(h, par).right[par]
    ELSE fix_delete_r1(h, par).left[par]

\* The nodes that the iterations of the loop of fix_delete dereference
\* without a test for presence: parent (lines 363, 364, 399) and w (lines
\* 373, 406), from the loop state (h, x, parent) on.
RECURSIVE fix_delete_derefs(_, _, _, _)
fix_delete_derefs(h, x, par, fuel) ==
    IF h.st # "ok" \/ x = h.root_ \/ ~IsBlack(h, x) \/ fuel = 0 THEN {}
    ELSE IF par = NIL THEN {par}
    ELSE Bind(IF x = h.left[par] THEN fix_delete_left(h, x, par)
              ELSE fix_delete_right(h, x, par),
              LAMBDA s : {par, fix_delete_w(h, x, par)}
                         \cup fix_delete_derefs(s.h, s.x, s.parent,
                                                fuel - 1))

\* C22: in every iteration of the loop of fix_delete, in every erase of a
\* stored key, the nodes that the body dereferences without a test (the
\* parent and the sibling w of the current node) are present.
C22_SiblingPresent ==
    [][(/\ call'.op = "erase" /\ call'.key \in Reachable
        /\ Spliced(call'.key).yc = BLACK
        /\ Spliced(call'.key).x # NIL) =>
           NIL \notin fix_delete_derefs(
                          Spliced(call'.key).h, Spliced(call'.key).x,
                          Spliced(call'.key).h.parent[Spliced(call'.key).x],
                          Fuel)]_vars

\* C23: every call of insert and every call of erase runs to completion:
\* the loops of fix_insert and fix_delete reach their exit condition, the
\* call neither traps nor goes on for ever.
C23_Completion ==
    [][(call'.op \in {"insert", "erase"}) => st' = "ok"]_vars

\* The child slots of reachable nodes that hold a node.
Edges ==
    {<<n, "left">> : n \in {m \in Reachable : left[m] # NIL}}
        \cup {<<n, "right">> : n \in {m \in Reachable : right[m] # NIL}}

\* C24: after every insert or erase call that returns, the root has no
\* parent, every child's parent link points back at the node it hangs
\* below, every node but the root is the left or right child of its parent,
\* and the links form a tree: every reachable node but the root is held by
\* exactly one child slot.
C24_Links ==
    Returned =>
        /\ root_ # NIL => parent[root_] = NIL
        /\ \A n \in Reachable : \A c \in Kids(n) : parent[c] = n
        /\ \A n \in Reachable \ {root_} :
              /\ parent[n] \in Reachable
              /\ (left[parent[n]] = n) # (right[parent[n]] = n)
        /\ root_ # NIL => Cardinality(Edges) = Cardinality(Reachable) - 1

\* A successful erase has returned of a key that lay between the keys that
\* are now the root and its left child; the root has both children.
C24_Witness ==
    /\ Returned /\ call.op = "erase" /\ ret.ok
    /\ root_ # NIL /\ left[root_] # NIL /\ right[root_] # NIL
    /\ left[root_] < call.key /\ call.key < root_

\* The keys of the subtree of heap h below n, read left subtree first, then
\* n, then the right subtree.
RECURSIVE InOrder(_, _, _)
InOrder(h, n, fuel) ==
    IF n = NIL \/ fuel = 0 THEN << >>
    ELSE InOrder(h, h.left[n], fuel - 1) \o <<n>>
             \o InOrder(h, h.right[n], fuel - 1)

\* The pair a rotation called on node n turns round, as the tree stands:
\* [low, mid, up] with low the child that is lifted, mid the subtree
\* between the two, up the parent of n.
Pivot(op, n) ==
    IF op = "rotate_left"
    THEN [low |-> right[n], mid |-> left[right[n]], up |-> parent[n]]
    ELSE [low |-> left[n], mid |-> right[left[n]], up |-> parent[n]]

\* C25: rotate_left on a node with a right child and rotate_right on a node
\* with a left child leave the in-order sequence of keys, the set of nodes
\* and all colors (and values and size) as they were; left and right links
\* change only at the two rotated nodes and at their former parent, parent
\* links only at the two rotated nodes and at the top of the subtree
\* between them, the root pointer only when the rotated node was the root.
C25_RotationFrame ==
    [][(call'.op \in {"rotate_left", "rotate_right"}) =>
           /\ st' = "ok"
           /\ InOrder(Heap', root_', MaxNodes) = InOrder(Heap, root_, MaxNodes)
           /\ nodes' = nodes /\ color' = color
           /\ data' = data /\ size_' = size_
           /\ \A n \in AllKeys \ {call'.key, Pivot(call'.op, call'.key).low,
                                  Pivot(call'.op, call'.key).up} :
                 left'[n] = left[n] /\ right'[n] = right[n]
           /\ \A n \in AllKeys \ {call'.key, Pivot(call'.op, call'.key).low,
                                  Pivot(call'.op, call'.key).mid} :
                 parent'[n] = parent[n]
           /\ Pivot(call'.op, call'.key).up # NIL => root_' = root_]_vars

\* rotate_left has returned from a node that had a parent, and the subtree
\* that moved from the lifted child to the node is not empty.
C25_Witness ==
    /\ Returned /\ call.op = "rotate_left"
    /\ right[call.key] # NIL
    /\ parent[call.key] # NIL
    /\ parent[parent[call.key]] # NIL
    /\ left[parent[call.key]] = call.key

\* What C26 says of heap h, the heap in which erase(k) of a node k with two
\* children calls or skips fix_delete: y, the minimum of k's right subtree,
\* stands in k's place with k's color, k's left subtree and what is left of
\* k's right subtree; x, y's former right child, stands where y stood.
Grafted(h, k, y, x) ==
    /\ h.st = "ok"
    /\ TopAfter(h, k, parent[k]) = y
    /\ h.parent[y] = parent[k]
    /\ h.color[y] = color[k]
    /\ \A n \in nodes \ {y} : h.color[n] = color[n]
    /\ h.left[y] = left[k] /\ h.parent[left[k]] = y
    /\ InOrder(h, h.left[y], MaxNodes) = InOrder(Heap, left[k], MaxNodes)
    /\ InOrder(h, h.right[y], MaxNodes)
           = Tail(InOrder(Heap, right[k], MaxNodes))
    /\ IF y = right[k]
       THEN /\ h.right[y] = x
            /\ x # NIL => h.parent[x] = y
       ELSE /\ h.right[y] = right[k] /\ h.parent[right[k]] = y
            /\ h.left[parent[y]] = x
            /\ x # NIL => h.parent[x] = parent[y]

\* C26: erase(key) of a node N with two children puts Y, the minimum of N's
\* right subtree, into N's place with N's color, N's left subtree and N's
\* right subtree less Y, and Y's right child X into Y's place; fix_delete(X)
\* is then run exactly when Y was BLACK.
C26_EraseTwoChildren ==
    [][(/\ call'.op = "erase" /\ call'.key \in Reachable
        /\ left[call'.key] # NIL /\ right[call'.key] # NIL) =>
           /\ Grafted(Spliced(call'.key).h, call'.key,
                      Removal(call'.key).y, Removal(call'.key).x)
           /\ Spliced(call'.key).x = Removal(call'.key).x
           /\ Spliced(call'.key).yc = Removal(call'.key).yc
           /\ \E e \in BOOLEAN :
                 Heap' = erase_done(
                             IF Removal(call'.key).yc = BLACK
                             THEN fix_delete(Spliced(call'.key).h,
                                             Removal(call'.key).x, e)
                             ELSE Spliced(call'.key).h,
                             call'.key).h]_vars

\* erase has returned true from a tree of three nodes whose root, with both
\* children, held the erased key: the root is now the key that was its
\* right child.
C26_Witness ==
    /\ Returned /\ call.op = "erase" /\ ret.ok
    /\ size_ = 2 /\ root_ # NIL
    /\ left[root_] # NIL /\ left[root_] < call.key /\ call.key < root_
    /\ right[root_] = NIL

\* The only child of node k (NIL when k has none or two).
OnlyChild(k) ==
    IF left[k] # NIL /\ right[k] = NIL THEN left[k]
    ELSE IF left[k] = NIL /\ right[k] # NIL THEN right[k]
    ELSE NIL

\* C27: when erase removes a BLACK node whose only child X is RED, the call
\* returns true with X in the removed node's place and BLACK; nothing is
\* rotated (every other link is as it was) and no other node changes color.
C27_EraseOneRedChild ==
    [][(/\ call'.op = "erase" /\ call'.key \in Reachable
        /\ color[call'.key] = BLACK
        /\ OnlyChild(call'.key) # NIL
        /\ color[OnlyChild(call'.key)] = RED) =>
           /\ st' = "ok" /\ ret'.ok = TRUE
           /\ TopAfter(Heap', call'.key, parent[call'.key])
                  = OnlyChild(call'.key)
           /\ parent'[OnlyChild(call'.key)] = parent[call'.key]
           /\ color'[OnlyChild(call'.key)] = BLACK
           /\ nodes' = nodes \ {call'.key}
           /\ \A n \in nodes' \ {OnlyChild(call'.key)} :
                 color'[n] = color[n] /\ parent'[n] = parent[n]
           /\ \A n \in nodes' \ {parent[call'.key]} :
                 left'[n] = left[n] /\ right'[n] = right[n]
           /\ parent[call'.key] # NIL => root_' = root_]_vars

\* The script insert 1, 2, erase 1 has run and returned: the BLACK root 1
\* had the RED 2 as its only child.
C27_Witness ==
    /\ Returned
    /\ Calls = << <<"insert", 1>>, <<"insert", 2>>, <<"erase", 1>> >>
    /\ root_ = 2

\* C28: when a tree and its twin are mirror images, erasing a key whose
\* node has at most one child from the one and the opposite key from the
\* other leaves mirror images with identical colors.
C28_MirrorErase ==
    [][(/\ call'.op = "erase" /\ call'.key \in Reachable
        /\ (left[call'.key] = NIL \/ right[call'.key] = NIL)
        /\ Mirrored(Heap, twin)) =>
           Mirrored(Heap', twin')]_vars

\* The (key, value) pairs that a loop from begin() to end() over heap h
\* reads.
Pairs(h) ==
    Bind(iterate(h, begin(h), << >>, Fuel), LAMBDA w :
         {<<w.seen[i], h.data[w.seen[i]]>> : i \in 1..Len(w.seen)})

\* The abstract map, a set of (key, value) pairs with one pair a key:
\* put-if-absent and remove.
PutIfAbsent(m, k, v) ==
    IF \E p \in m : p[1] = k THEN m ELSE m \cup {<<k, v>>}
Remove(m, k) == {p \in m : p[1] # k}

\* C29: every insert(k, v) and erase(k) call returns, the pairs a traversal
\* reads afterwards are those of the abstract map after put-if-absent(k, v)
\* or remove(k) on the pairs it read before, and the call returns true
\* exactly when the abstract map changed.
C29_Refinement ==
    [][/\ call'.op = "insert" =>
              /\ st' = "ok"
              /\ Pairs(Heap') = PutIfAbsent(Pairs(Heap), call'.key, call'.val)
              /\ ret'.ok = (Pairs(Heap') # Pairs(Heap))
       /\ call'.op = "erase" =>
              /\ st' = "ok"
              /\ Pairs(Heap') = Remove(Pairs(Heap), call'.key)
              /\ ret'.ok = (Pairs(Heap') # Pairs(Heap))]_vars

\* C30: an erase(key) that returns true has destroyed exactly one node, the
\* one that held key; no node reachable from the root points at it through
\* parent, left or right, and every other node that was allocated before
\* the call is still allocated and reachable from the root.
C30_EraseDestroysOne ==
    [][(call'.op = "erase" /\ ret'.ok) =>
           /\ call'.key \in nodes
           /\ nodes' = nodes \ {call'.key}
           /\ \A n \in Reachable' :
                 /\ parent'[n] # call'.key
                 /\ left'[n] # call'.key
                 /\ right'[n] # call'.key
           /\ root_' # call'.key
           /\ Reachable' = nodes \ {call'.key}]_vars

\* An erase has returned true and left three nodes, all of them BLACK.
C30_Witness ==
    /\ Returned /\ call.op = "erase" /\ ret.ok
    /\ call.key \notin nodes
    /\ Cardinality(nodes) = 3
    /\ \A n \in nodes : color[n] = BLACK

\* C31: in a pool with at least one worker, when ~ThreadPool has returned
\* every task that was queued has been executed, the queue is empty and
\* every worker has left its loop; a worker leaves only with stop set and
\* the queue empty; and a destructor that has been entered returns (every
\* task of the model terminates).
C31_Shutdown ==
    /\ []((threads >= 1 /\ cpc["main"] = "gone") =>
             /\ \A i \in 1..Len(added) : ran[added[i]] >= 1
             /\ tasks = << >>
             /\ \A w \in 1..threads : wpc[w] = "exited")
    /\ [][\A w \in WorkerIds :
             (wpc'[w] = "exited" /\ wpc[w] # "exited") =>
                 (stop /\ tasks = << >>)]_vars
    /\ (threads >= 1 /\ cpc["main"] = "d_lock") ~> (cpc["main"] = "gone")

\* The destructor of a pool with MaxThreads workers has returned after
\* MaxTasks tasks were queued, one of them still queued when stop was set
\* or not: all have run.
C31_Witness ==
    /\ threads = MaxThreads /\ cpc["main"] = "gone"
    /\ Len(added) = MaxTasks
    /\ \A t \in TaskIds : ran[t] = 1
    /\ joined = MaxThreads

\* The threads that hold queue_mutex.
Holders == queue_mutex.w \cup queue_mutex.c

\* C32: under every interleaving each queued task is removed from the queue
\* by one worker only and run at most once; tasks and stop change only in a
\* step of the thread that holds queue_mutex, the threads that are where the
\* code reads them hold it, and one thread holds it at a time; a worker that
\* runs a task does not hold it.
C32_Exclusion ==
    /\ [](/\ \A i, j \in 1..Len(taken) : taken[i] = taken[j] => i = j
          /\ \A t \in TaskIds : ran[t] <= 1
          /\ \A v, w \in WorkerIds :
                (wtask[v] # NoTask /\ wtask[v] = wtask[w]) => v = w
          /\ Cardinality(Holders) <= 1
          /\ \A w \in WorkerIds : wpc[w] = "check" <=> w \in queue_mutex.w
          /\ \A c \in Clients :
                cpc[c] \in {"crit", "d_stop"} <=> c \in queue_mutex.c
          /\ \A w \in WorkerIds : wpc[w] = "run" => w \notin queue_mutex.w)
    /\ [][(tasks' # tasks \/ stop' # stop) =>
             /\ Cardinality(Holders) = 1
             /\ Holders' = {}]_vars

\* Two workers run two tasks at the same time while a third thread holds
\* queue_mutex.
C32_Witness ==
    /\ \E v, w \in WorkerIds :
          /\ v # w /\ wpc[v] = "run" /\ wpc[w] = "run"
          /\ wtask[v] # wtask[w]
    /\ queue_mutex.c # {}

\* C33: once stop is set no step queues a task; an enqueue call that finds
\* stop set ends with runtime_error (enqueue<R>) or by returning (the void
\* version) and leaves the queue as it was; a call with an empty function
\* ends at once, with invalid_argument (enqueue<R>) or by returning, and
\* queues nothing and makes no task.
C33_Rejected ==
    [][/\ stop => (added' = added /\ Len(tasks') <= Len(tasks))
       /\ \A c \in Clients :
             (stop /\ cpc[c] = "crit" /\ cpc'[c] # "crit") =>
                 /\ tasks' = tasks
                 /\ cpc'[c] = "idle"
                 /\ outcome'[c] = IF kind[ctask[c]] = "R"
                                  THEN "runtime_error" ELSE "returned"
       /\ \A c \in Clients :
             (cpc[c] = "idle" /\ cpc'[c] = "idle"
              /\ outcome'[c] # outcome[c]) =>
                 /\ outcome'[c] \in {"invalid_argument", "returned"}
                 /\ UNCHANGED <<tasks, added, kind, future>>]_vars

\* With stop set the helper thread has called the void enqueue and then
\* enqueue<R>, both with a callable function: nothing was queued and the
\* second call ended with runtime_error.
C33_Witness ==
    /\ stop /\ cpc["helper"] = "idle"
    /\ kind[1] = "void" /\ kind[2] = "R"
    /\ added = << >>
    /\ outcome["helper"] = "runtime_error"
    /\ future[2].st = "dropped"

\* C34: the workers remove the tasks in the order in which the enqueue
\* calls queued them: at every moment the removals made so far are the
\* first of the tasks queued so far, in the same order.
C34_Fifo ==
    /\ Len(taken) <= Len(added)
    /\ \A i \in 1..Len(taken) : taken[i] = added[i]

\* Two calls raced: the task of the call that began later was queued first.
\* Both tasks have been removed, by two workers that hold them now.
C34_Witness ==
    /\ added = <<2, 1>> /\ taken = <<2, 1>>
    /\ \E v, w \in WorkerIds : v # w /\ wtask[v] = 2 /\ wtask[w] = 1

\* C35: allocate never hands out a chunk that is allocated; what it hands
\* out is the start of a chunk of the pool; it throws bad_alloc exactly when
\* all numChunks_ chunks are allocated; and after a deallocate it hands out
\* the chunk that was given back last.
C35_Allocate ==
    [][mret'.op = "allocate" =>
           /\ (mret'.exc = "bad_alloc") <=> (Cardinality(owned) = numChunks_)
           /\ mret'.exc \in {"none", "bad_alloc"}
           /\ mret'.exc = "none" =>
                 /\ mret'.ptr \notin owned
                 /\ mret'.ptr \in ChunkStarts
                 /\ owned' = owned \cup {mret'.ptr}
                 /\ recent # NIL => mret'.ptr = recent
           /\ mret'.exc = "bad_alloc" => owned' = owned]_vars

\* allocate has handed out again the chunk given back last, which was not
\* the one given back first, while the owner had written to it; one chunk
\* is still free.
C35_Witness ==
    /\ mret.op = "allocate" /\ mret.exc = "none"
    /\ numChunks_ = MaxChunks
    /\ Cardinality(owned) = numChunks_ - 1
    /\ freeListHead_ # NIL /\ freeListHead_ < mret.ptr
    /\ chunk[ChunkOf(mret.ptr)] = freeListHead_

\* The live shared_ptr instances that own object o.
Owners(o) == {h \in alive : control_block[h] = o}

\* C36: an object handed to a shared_ptr is deleted exactly once, when the
\* last shared_ptr that owns it is destroyed or reassigned, and not while
\* one owns it; and shared_count is the number of live owners.
C36_DeletedOnce ==
    \A o \in made :
        /\ shared_count[o] = Cardinality(Owners(o))
        /\ deleted[o] = IF Owners(o) = {} THEN 1 ELSE 0

\* The count alone: shared_count is the number of live owners, and no
\* object is deleted while it is owned or more than once.
SharedCounted ==
    \A o \in made :
        /\ shared_count[o] = Cardinality(Owners(o))
        /\ deleted[o] <= 1
        /\ Owners(o) # {} => deleted[o] = 0

\* What the list reads from begin() to end() and from rbegin() to rend().
Read(l) == Forward(l, l.next[l.head], MaxElems + 2)
ReadBack(l) == Backward(l, l.prev[l.tail], MaxElems + 2)

\* s in reverse
RECURSIVE Reversed(_)
Reversed(s) == IF s = << >> THEN << >> ELSE Append(Reversed(Tail(s)), Head(s))

\* The nodes from the head sentinel to the tail sentinel, following next.
RECURSIVE Chain(_, _, _)
Chain(l, n, fuel) ==
    IF n = l.tail \/ fuel = 0 \/ ~Valid(l, n) THEN <<n>>
    ELSE <<n>> \o Chain(l, l.next[n], fuel - 1)

\* Adjacent nodes point at each other, from the head sentinel to the tail
\* sentinel.
Consistent(l) ==
    LET c == Chain(l, l.head, MaxElems + 2)
    IN  /\ c[Len(c)] = l.tail
        /\ \A i \in 1..(Len(c) - 1) : l.prev[c[i + 1]] = c[i]

\* The list holds the sequence it reads forward: it reads the same
\* backward, counts as many and is linked consistently.
Holds(l) ==
    /\ l.st = "ok"
    /\ -1 \notin {Read(l)[i] : i \in 1..Len(Read(l))}
    /\ ReadBack(l) = Reversed(Read(l))
    /\ l.size_ = Len(Read(l))
    /\ Consistent(l)

\* C37: push_back(v) on a list that holds s leaves a list that reads s
\* followed by v forward and the reverse of that backward, whose size() is
\* the length of s plus 1 and whose links are consistent.
C37_PushBack ==
    [][(lcall'.op = "push_back" /\ Holds(list)) =>
           /\ list'.st = "ok"
           /\ Read(list') = Append(Read(list), lcall'.value)
           /\ ReadBack(list') = Reversed(Read(list'))
           /\ list'.size_ = Len(Read(list)) + 1
           /\ Consistent(list')]_vars

\* The same of emplace_back, which links the new node in the other order.
EmplaceBackAppends ==
    [][(lcall'.op = "emplace_back" /\ Holds(list)) =>
           /\ Holds(list')
           /\ Read(list') = Append(Read(list), lcall'.value)]_vars

\* What push_back does keep: the backward reading and the size.
PushBackBackward ==
    [][(lcall'.op = "push_back" /\ Holds(list)) =>
           /\ list'.st = "ok"
           /\ ReadBack(list') = <<lcall'.value>> \o ReadBack(list)
           /\ list'.size_ = list.size_ + 1
           /\ Read(list') = Read(list)]_vars

\* The nodes that the lists of the map have allocated and not deleted: the
\* pairs of a bucket and a node of its list.
Stored(m) ==
    {<<i, n>> \in (1..m.bucket_count) \X ElemIds : n \in m.buckets[i].elems}

\* The key held by a stored node.
KeyOf(m, b) == m.buckets[b[1]].data[b[2]].key

\* The keys stored in the map.
StoredKeys(m) == {KeyOf(m, b) : b \in Stored(m)}

\* C38: each stored key is in exactly one node, that node is in bucket
\* hash(key) mod bucket_count, size() is the number of stored nodes, and
\* insert returns false, leaving the map unchanged, exactly when the key is
\* stored.
C38_Buckets ==
    /\ [](/\ \A b \in Stored(map), c \in Stored(map) :
                KeyOf(map, b) = KeyOf(map, c) => b = c
          /\ \A b \in Stored(map) :
                (hash_func(KeyOf(map, b)) % map.bucket_count) + 1 = b[1]
          /\ map.elem_count = Cardinality(Stored(map)))
    /\ [][mcall'.op = "insert" =>
            /\ mcall'.ret = FALSE <=> mcall'.key \in StoredKeys(map)
            /\ mcall'.ret = FALSE => StoredKeys(map') = StoredKeys(map)]_vars

\* How often v occurs in the range a.
Occurrences(a, v) == Cardinality({i \in 1..Len(a) : a[i] = v})

\* C39: heap_sort comes to an end and leaves the range in ascending order,
\* a permutation of what it held, whatever it held; build_heap leaves every
\* element not less than its children at 2i+1 and 2i+2.
C39_HeapSort ==
    /\ sorting # "hung"
    /\ sorting # "none" =>
          /\ Len(range) = Len(input)
          /\ \A v \in 0..MaxVal : Occurrences(range, v) = Occurrences(input, v)
    /\ sorting = "heap_sort" =>
          \A i \in 1..(Len(range) - 1) : range[i] <= range[i + 1]
    /\ sorting = "build_heap" =>
          \A i \in 0..(Len(range) - 1) :
              /\ 2 * i + 1 < Len(range) => range[i + 1] >= range[2 * i + 2]
              /\ 2 * i + 2 < Len(range) => range[i + 1] >= range[2 * i + 3]

\* heap_sort has sorted a range of the greatest length that held a value
\* twice and whose least element stood last.
C39_Witness ==
    /\ sorting = "heap_sort"
    /\ Len(input) = MaxLen
    /\ input[1] = input[2] /\ input[1] > input[MaxLen]
    /\ range # input
    /\ \A i \in 1..MaxLen : input[MaxLen] <= input[i]

====
